---- MODULE Spec2Model ----
(***************************************************************************)
(* Verification model of maven-package-readme-mcp-server:                  *)
(*   - CacheService (src/src/services/cache.ts), a bounded TTL cache kept  *)
(*     in a JavaScript Map (insertion-ordered);                            *)
(*   - ErrorHandler.withRetry / handleApiError                             *)
(*     (src/src/utils/error-handler.ts), sequential retry with backoff.    *)
(***************************************************************************)
EXTENDS Integers, Sequences, FiniteSets, TLC

VARIABLES
    cache,       \* CacheService.cache: the Map, as a sequence of entries in insertion order
    now,         \* Date.now()
    maxSize,     \* CacheService.maxSize
    last,        \* the most recent CacheService call: operation, arguments, result, Map before it
    pc,          \* withRetry: position of the call ("idle", "call", "sleep", "returned", "thrown")
    attempt,     \* withRetry: the loop variable
    maxRetries,  \* withRetry: parameter maxRetries
    baseDelay,   \* withRetry: parameter baseDelay
    lastError,   \* withRetry: the local lastError
    calls,       \* the outcomes of the invocations of operation(), in order
    sleeps,      \* the delays of the backoff sleeps, in order
    outcome,     \* what withRetry returned or threw
    icu,         \* whether String.prototype.localeCompare of the runtime collates with ICU
    upstream,    \* what Maven Central holds for the coordinate: search documents and POM files
    call,        \* the most recent call of a static function: operation, arguments, result
    prev,        \* the call before it
    frames,      \* the withRetry calls in progress of one API call, the outermost first
    requests,    \* the number of HTTP requests the API call has issued
    clientErrorAt, \* the request that first got a client error other than 429, 0 if none did
    slept,       \* the total of the backoff delays of the API call
    apiResult,   \* what the API call returned or threw
    apiCalls,    \* the number of API calls made
    atCall,      \* the API call in progress or ended last: its operation, and the cache and clock it found
    hit,         \* the search the closure of the API call last took from the cache: for whom, stored for whom
    storedBy,    \* for each search key, the caller whose search stored the entry under it
    changedAt,   \* the times at which what Maven Central holds for the coordinate changed
    procs,       \* the concurrent callers: for each its API call, the withRetry calls in progress, its result
    stores       \* the key and value of every entry a concurrent caller has set and not evicted before its next await

cacheVars == <<cache, now, maxSize, last>>
retryVars == <<pc, attempt, maxRetries, baseDelay, lastError, calls, sleeps, outcome>>
libVars == <<icu, upstream, call, prev>>
soloVars == <<frames, requests, clientErrorAt, slept, apiResult, apiCalls, atCall, hit, storedBy, changedAt>>
concVars == <<procs, stores>>
apiVars == <<soloVars, concVars>>
extVars == <<libVars, apiVars>>
vars == <<cache, now, maxSize, last, pc, attempt, maxRetries, baseDelay, lastError, calls, sleeps, outcome,
          icu, upstream, call, prev, frames, requests, clientErrorAt, slept, apiResult, apiCalls,
          atCall, hit, storedBy, changedAt, procs, stores>>

(***************************************************************************)
(* Bounds of the model.                                                    *)
(***************************************************************************)
\* the largest maxSize a CacheService is constructed with
MaxSizeBound == 3
\* the largest explicit ttl passed to set()
MaxTtl == 0
\* the clock runs long enough for every explicit ttl to expire
MaxTime == MaxTtl + 1
\* the largest maxRetries passed to withRetry
MaxAttempts == 3

(***************************************************************************)
(* CacheService                                                            *)
(***************************************************************************)
\* Keys of the Map; the empty string is a legal key (and is falsy in JavaScript).
Keys == {"", "a", "b"}
Values == {"v1"}

\* options.ttl ?? 3600000
DefaultTtl == 3600000
\* set(key, data, ttl?) called without a ttl
NoTtl == -1
TtlArgs == (0..MaxTtl) \cup {NoTtl}

\* get() reporting absence
Null == "null"

\* mutant of IsExpired: an entry already counts as expired at now - storedAt = ttl
IsExpiredAtTtl(entry, t) == t - entry.timestamp >= entry.ttl

\* now - entry.timestamp > entry.ttl
IsExpired(entry, t) == t - entry.timestamp > entry.ttl

\* Map.prototype.has
MapHas(m, key) == \E i \in 1..Len(m) : m[i].key = key

\* Map.prototype.get (defined when MapHas)
MapGet(m, key) == m[CHOOSE i \in 1..Len(m) : m[i].key = key]

\* Map.prototype.delete
MapDelete(m, key) == SelectSeq(m, LAMBDA e : e.key # key)

\* Map.prototype.set: an existing key keeps its place in the iteration order,
\* a new key is appended.
MapSet(m, key, entry) ==
    IF MapHas(m, key)
    THEN [i \in 1..Len(m) |-> IF m[i].key = key THEN entry ELSE m[i]]
    ELSE Append(m, entry)

\* JavaScript truthiness of a string (or of undefined, written Null here)
Truthy(s) == s # "" /\ s # Null

\* this.cache.keys().next().value
FirstKey(m) == IF Len(m) = 0 THEN Null ELSE m[1].key

\* mutant of Cleanup: an entry is also deleted when its age equals its ttl
CleanupAtTtl(m, t) == SelectSeq(m, LAMBDA e : ~IsExpiredAtTtl(e, t))

\* cleanup(): delete every expired entry, in iteration order
Cleanup(m, t) == SelectSeq(m, LAMBDA e : ~IsExpired(e, t))

\* the eviction branch of set(): remove the oldest entry when its key is truthy
EvictOldest(m) ==
    LET oldestKey == FirstKey(m)
    IN  IF Truthy(oldestKey) THEN MapDelete(m, oldestKey) ELSE m

\* mutant of MakeRoom: the capacity check is skipped, nothing is removed
MakeRoomKeepsAll(m, t, cap) == m

\* the capacity handling of set(), before the insertion
MakeRoom(m, t, cap) ==
    IF Len(m) >= cap
    THEN LET swept == Cleanup(m, t)
         IN  IF Len(swept) >= cap THEN EvictOldest(swept) ELSE swept
    ELSE m

\* the entry set() builds
NewEntry(key, data, ttl, t) ==
    [key |-> key, data |-> data, timestamp |-> t,
     ttl |-> IF ttl = NoTtl THEN DefaultTtl ELSE ttl]

\* set(key, data, ttl?): the Map after the call
SetResult(m, key, data, ttl, t, cap) ==
    MapSet(MakeRoom(m, t, cap), key, NewEntry(key, data, ttl, t))

\* get(key): the value returned
GetReturn(m, key, t) ==
    IF ~MapHas(m, key) THEN Null
    ELSE IF IsExpired(MapGet(m, key), t) THEN Null
    ELSE MapGet(m, key).data

\* get(key) and has(key): the Map after the call
ProbeResult(m, key, t) ==
    IF MapHas(m, key) /\ IsExpired(MapGet(m, key), t) THEN MapDelete(m, key) ELSE m

\* has(key): the value returned
HasReturn(m, key, t) == MapHas(m, key) /\ ~IsExpired(MapGet(m, key), t)

(***************************************************************************)
(* Error types (types/index) and ErrorHandler                              *)
(***************************************************************************)
\* statusCode?: number left undefined
NoStatus == -1

\* messages are sequences of words; String.prototype.includes looks for a word
Includes(message, word) == \E i \in 1..Len(message) : message[i] = word

PackageReadmeMcpError(message, code, statusCode) ==
    [cls |-> "PackageReadmeMcpError", message |-> message, code |-> code,
     statusCode |-> statusCode]

PackageNotFoundError(packageName) ==
    [cls |-> "PackageNotFoundError", message |-> <<"Package", packageName, "not", "found">>,
     code |-> "PACKAGE_NOT_FOUND", statusCode |-> 404]

RateLimitError(service) ==
    [cls |-> "RateLimitError", message |-> <<"Rate", "limit", "exceeded", "for", service>>,
     code |-> "RATE_LIMIT_EXCEEDED", statusCode |-> 429]

NetworkError(message) ==
    [cls |-> "NetworkError", message |-> <<"Network", "error:">> \o message,
     code |-> "NETWORK_ERROR", statusCode |-> NoStatus]

\* a value thrown that is no PackageReadmeMcpError: an Error, a TypeError, or a
\* value that is no Error at all (cls "string")
Thrown(cls, message) ==
    [cls |-> cls, message |-> message, code |-> "", statusCode |-> NoStatus]

\* error instanceof PackageReadmeMcpError
IsTyped(e) ==
    e.cls \in {"PackageReadmeMcpError", "PackageNotFoundError", "VersionNotFoundError",
               "RateLimitError", "NetworkError", "InvalidPackageNameError"}

\* error instanceof Error
IsError(e) == IsTyped(e) \/ e.cls \in {"Error", "TypeError"}

\* mutant of HandleApiError: no instanceof PackageReadmeMcpError test, so a typed
\* error is wrapped like any other Error
HandleApiErrorWrapsTyped(error, context) ==
    IF IsError(error) THEN NetworkError(error.message)
    ELSE PackageReadmeMcpError(<<"Unknown", "error", "in", context>>, "UNKNOWN_ERROR", NoStatus)

\* handleApiError(error, context): the error it throws
HandleApiError(error, context) ==
    IF IsTyped(error) THEN error
    ELSE IF IsError(error) THEN
        IF error.cls = "TypeError" /\ Includes(error.message, "fetch")
        THEN NetworkError(<<"Failed", "to", "fetch", "data", "from", context>>)
        ELSE IF Includes(error.message, "timeout") \/ Includes(error.message, "ETIMEDOUT")
        THEN NetworkError(<<"Request", "timeout", "for", context>>)
        ELSE IF Includes(error.message, "429") \/ Includes(error.message, "rate limit")
        THEN RateLimitError(context)
        ELSE NetworkError(error.message)
    ELSE PackageReadmeMcpError(<<"Unknown", "error", "in", context>>, "UNKNOWN_ERROR", NoStatus)

\* mutant of IsFatal: 429 is not excepted
IsFatalAny4xx(error) ==
    /\ IsTyped(error)
    /\ error.statusCode >= 400
    /\ error.statusCode < 500

\* withRetry: "Don't retry on client errors (4xx except 429)"
IsFatal(error) ==
    /\ IsTyped(error)
    /\ error.statusCode # NoStatus /\ error.statusCode # 0
    /\ error.statusCode >= 400
    /\ error.statusCode < 500
    /\ error.statusCode # 429

\* mutant of Delay: the exponent is the attempt, not attempt - 1
DelayDoubledEarly(base, att) == base * 2^att

\* withRetry: baseDelay * Math.pow(2, attempt - 1)
Delay(base, att) == base * 2^(att - 1)

\* the results of one invocation of operation(): a value, or an error thrown
Resolved(value) == [ok |-> TRUE, value |-> value, error |-> Thrown("none", <<>>)]
Rejected(error) == [ok |-> FALSE, value |-> Null, error |-> error]

\* mutant of NextPc: no test for client errors, every failure is retried
NextPcRetriesAll(result, att, n) ==
    IF result.ok THEN "returned"
    ELSE IF att = n THEN "thrown"
    ELSE "sleep"

\* withRetry's loop body after operation() settled with `result` in attempt
\* `att` of `n`: where the call goes next
NextPc(result, att, n) ==
    IF result.ok THEN "returned"
    ELSE IF IsFatal(result.error) THEN "thrown"
    ELSE IF att = n THEN "thrown"
    ELSE "sleep"

\* mutant of Outcome: the awaited value is not returned
OutcomeDropsValue(result, att, n, context) ==
    IF result.ok THEN [kind |-> "return", value |-> Null, error |-> result.error]
    ELSE IF IsFatal(result.error)
    THEN [kind |-> "throw", value |-> Null, error |-> result.error]
    ELSE [kind |-> "throw", value |-> Null, error |-> HandleApiError(result.error, context)]

\* what withRetry returns or throws when it ends in attempt `att` of `n`
Outcome(result, att, n, context) ==
    IF result.ok THEN [kind |-> "return", value |-> result.value, error |-> result.error]
    ELSE IF IsFatal(result.error)
    THEN [kind |-> "throw", value |-> Null, error |-> result.error]
    ELSE [kind |-> "throw", value |-> Null, error |-> HandleApiError(result.error, context)]

(***************************************************************************)
(* One call of withRetry as a state machine.                               *)
(***************************************************************************)
Context == "test"
StatusCodes == {400, 404, 429, 499, 500}
BaseDelays == {100, 1000}
Results == {"success", "other"}

\* the errors an operation may throw
Errors ==
    {PackageReadmeMcpError(<<"typed">>, "TYPED", sc) : sc \in StatusCodes \cup {NoStatus}}
    \cup {PackageNotFoundError("test-package"), RateLimitError("Maven Central"),
          NetworkError(<<"Persistent", "error">>),
          Thrown("TypeError", <<"fetch", "failed">>),
          Thrown("Error", <<"Request", "timeout">>),
          Thrown("Error", <<"HTTP", "429", "rate", "limit", "exceeded">>),
          Thrown("Error", <<"Generic", "error">>),
          Thrown("string", <<"string", "error">>)}

Settled == {Resolved(v) : v \in Results} \cup {Rejected(e) : e \in Errors}

NoOutcome == [kind |-> "none", value |-> Null, error |-> Thrown("none", <<>>)]

RetryIdle ==
    /\ pc = "idle"
    /\ attempt = 0
    /\ maxRetries = 0
    /\ baseDelay = 0
    /\ lastError = Thrown("none", <<>>)
    /\ calls = <<>>
    /\ sleeps = <<>>
    /\ outcome = NoOutcome

\* withRetry(operation, n, base, context) is called: the loop starts
WithRetry(n, base) ==
    /\ pc = "idle"
    /\ pc' = "call"
    /\ attempt' = 1
    /\ maxRetries' = n
    /\ baseDelay' = base
    /\ UNCHANGED <<lastError, calls, sleeps, outcome>>
    /\ UNCHANGED cacheVars
    /\ UNCHANGED extVars

\* one pass of the loop body: await operation(), then the catch block up to the
\* backoff sleep, or the end of the call
Invoke(result) ==
    /\ pc = "call"
    /\ attempt <= maxRetries
    /\ calls' = Append(calls, result)
    /\ lastError' = IF result.ok THEN lastError ELSE result.error
    /\ pc' = NextPc(result, attempt, maxRetries)
    /\ IF pc' = "sleep"
       THEN /\ sleeps' = Append(sleeps, Delay(baseDelay, attempt))
            /\ UNCHANGED outcome
       ELSE /\ outcome' = Outcome(result, attempt, maxRetries, Context)
            /\ UNCHANGED sleeps
    /\ UNCHANGED <<attempt, maxRetries, baseDelay>>
    /\ UNCHANGED cacheVars
    /\ UNCHANGED extVars

\* the backoff timer fires: the loop goes to its next attempt
TimerFires ==
    /\ pc = "sleep"
    /\ pc' = "call"
    /\ attempt' = attempt + 1
    /\ UNCHANGED <<maxRetries, baseDelay, lastError, calls, sleeps, outcome>>
    /\ UNCHANGED cacheVars
    /\ UNCHANGED extVars

\* options.maxSize ?? 100
DefaultMaxSize == 100

CacheIdle ==
    /\ cache = <<>>
    /\ now = 0
    /\ maxSize = DefaultMaxSize
    /\ last = [op |-> "new", key |-> "", data |-> Null, ttl |-> NoTtl, ret |-> "void",
               pre |-> <<>>]

\* no static function has been called, and the coordinate is unknown upstream
NoCall == [op |-> "none", args |-> <<>>, ret |-> <<>>]

NoUpstream == [numFound |-> 0, docs |-> <<>>, poms |-> {}]

LibIdle ==
    /\ icu = FALSE
    /\ upstream = NoUpstream
    /\ call = NoCall
    /\ prev = NoCall

\* an API call that has not settled
Pending == [ok |-> FALSE, value |-> Null, error |-> Thrown("pending", <<>>)]

\* the logical callers that run concurrently
Callers == {"c1", "c2"}

\* a caller that has made no API call
NoProc == [op |-> "none", frames |-> <<>>, slept |-> 0, result |-> Pending, hit |-> FALSE, calls |-> 0]

\* no API call has been made yet
NotCalled == [op |-> "none", cache |-> <<>>, now |-> 0]

\* the closure of the API call took no search from the cache
NoHit == [for |-> "none", from |-> "none"]

\* no API call has been made
ApiIdle ==
    /\ frames = <<>>
    /\ requests = 0
    /\ clientErrorAt = 0
    /\ slept = 0
    /\ apiResult = Pending
    /\ atCall = NotCalled
    /\ hit = NoHit
    /\ storedBy = {}
    /\ changedAt = {}
    /\ procs = [c \in Callers |-> NoProc]
    /\ stores = {}
    /\ apiCalls = 0

RetryNext ==
    \/ \E n \in 1..MaxAttempts, base \in BaseDelays : WithRetry(n, base)
    \/ \E result \in Settled : Invoke(result)
    \/ TimerFires

RetryInit == CacheIdle /\ RetryIdle /\ LibIdle /\ ApiIdle

SpecRetry == RetryInit /\ [][RetryNext]_vars

(***************************************************************************)
(* CacheService as a state machine: calls of its methods, and the clock.   *)
(***************************************************************************)
Call(op, key, data, ttl, ret) ==
    [op |-> op, key |-> key, data |-> data, ttl |-> ttl, ret |-> ret, pre |-> cache]

BoolStr(b) == IF b THEN "true" ELSE "false"

CacheInit ==
    /\ RetryIdle
    /\ LibIdle
    /\ ApiIdle
    /\ cache = <<>>
    /\ now = 0
    /\ maxSize \in 1..MaxSizeBound
    /\ last = [op |-> "new", key |-> "", data |-> Null, ttl |-> NoTtl, ret |-> "void",
               pre |-> <<>>]

Set(key, data, ttl) ==
    /\ cache' = SetResult(cache, key, data, ttl, now, maxSize)
    /\ last' = Call("set", key, data, ttl, "void")
    /\ UNCHANGED <<now, maxSize>>
    /\ UNCHANGED retryVars
    /\ UNCHANGED extVars

Get(key) ==
    /\ cache' = ProbeResult(cache, key, now)
    /\ last' = Call("get", key, Null, NoTtl, GetReturn(cache, key, now))
    /\ UNCHANGED <<now, maxSize>>
    /\ UNCHANGED retryVars
    /\ UNCHANGED extVars

Has(key) ==
    /\ cache' = ProbeResult(cache, key, now)
    /\ last' = Call("has", key, Null, NoTtl, BoolStr(HasReturn(cache, key, now)))
    /\ UNCHANGED <<now, maxSize>>
    /\ UNCHANGED retryVars
    /\ UNCHANGED extVars

Delete(key) ==
    /\ cache' = MapDelete(cache, key)
    /\ last' = Call("delete", key, Null, NoTtl, BoolStr(MapHas(cache, key)))
    /\ UNCHANGED <<now, maxSize>>
    /\ UNCHANGED retryVars
    /\ UNCHANGED extVars

Clear ==
    /\ cache' = <<>>
    /\ last' = Call("clear", "", Null, NoTtl, "void")
    /\ UNCHANGED <<now, maxSize>>
    /\ UNCHANGED retryVars
    /\ UNCHANGED extVars

CleanupCall ==
    /\ cache' = Cleanup(cache, now)
    /\ last' = Call("cleanup", "", Null, NoTtl, "void")
    /\ UNCHANGED <<now, maxSize>>
    /\ UNCHANGED retryVars
    /\ UNCHANGED extVars

\* the clock advances between calls
Tick ==
    /\ now < MaxTime
    /\ now' = now + 1
    /\ last' = [op |-> "tick", key |-> "", data |-> Null, ttl |-> NoTtl, ret |-> "void",
                pre |-> <<>>]
    /\ UNCHANGED <<cache, maxSize>>
    /\ UNCHANGED retryVars
    /\ UNCHANGED extVars

CacheNext ==
    \/ \E key \in Keys, data \in Values, ttl \in TtlArgs : Set(key, data, ttl)
    \/ \E key \in Keys : Get(key)
    \/ \E key \in Keys : Has(key)
    \/ \E key \in Keys : Delete(key)
    \/ Clear
    \/ CleanupCall
    \/ Tick

SpecCache == CacheInit /\ [][CacheNext]_vars

(***************************************************************************)
(* Claims about CacheService, checked under SpecCache.  `last` describes   *)
(* the call that produced the current state; `last.pre` is the Map before  *)
(* it, and `now` is the time of the call (Tick clears `last`).             *)
(***************************************************************************)
KeysOf(m) == {m[i].key : i \in 1..Len(m)}

\* the entry is live at time t: now - storedAt <= ttl
Live(entry, t) == t - entry.timestamp <= entry.ttl

\* the entry the last set() call was asked to store
Stored == [key |-> last.key, data |-> last.data, timestamp |-> now,
           ttl |-> IF last.ttl = NoTtl THEN DefaultTtl ELSE last.ttl]

\* C1: after every call the number of stored entries is at most maxSize.
C1_CapacityInvariant == Len(cache) <= maxSize

\* C2: get(key) returns the stored value iff an entry for key exists and
\* now - storedAt <= ttl; otherwise it returns null, and an entry that existed
\* but was expired is no longer in the store.
C2_GetNeverStale ==
    last.op = "get" =>
        LET present == \E i \in 1..Len(last.pre) : last.pre[i].key = last.key
            entry == last.pre[CHOOSE i \in 1..Len(last.pre) : last.pre[i].key = last.key]
        IN  IF present /\ Live(entry, now)
            THEN last.ret = entry.data /\ last.key \in KeysOf(cache)
            ELSE last.ret = Null /\ last.key \notin KeysOf(cache)

\* C2 witness: a get at now = storedAt + ttl + 1 found the entry expired.
C2_Witness ==
    /\ last.op = "get"
    /\ \E i \in 1..Len(last.pre) :
          /\ last.pre[i].key = last.key
          /\ now = last.pre[i].timestamp + last.pre[i].ttl + 1
    /\ last.ret = Null
    /\ last.key \notin KeysOf(cache)

\* C3: set of a key not in the store, with size = maxSize: every expired entry
\* is removed; if one was expired no live entry is removed; if none was expired
\* exactly the first entry in insertion order is removed; then the new entry is
\* inserted (after the kept entries).
C3_CapacityHandling ==
    (last.op = "set" /\ last.key \notin KeysOf(last.pre) /\ Len(last.pre) = maxSize) =>
        LET live == SelectSeq(last.pre, LAMBDA e : Live(e, now))
        IN  IF Len(live) < Len(last.pre)
            THEN cache = Append(live, Stored)
            ELSE cache = Append(Tail(last.pre), Stored)

\* C4: set of a key already in the store removes no other entry, whatever the
\* size: the stored keys are the same and only that key's entry changed.
C4_OverwriteKeepsOthers ==
    (last.op = "set" /\ last.key \in KeysOf(last.pre)) =>
        /\ KeysOf(cache) = KeysOf(last.pre)
        /\ \A i \in 1..Len(last.pre) :
              last.pre[i].key # last.key =>
                  \E j \in 1..Len(cache) : cache[j] = last.pre[i]

\* C5: after set on an existing key the entry's storedAt is the time of the
\* overwrite and the key is the newest in eviction order (evictions remove the
\* first key of the iteration order, so the newest key is the last one).  Stated
\* for stores that hold no empty-string key, where the eviction of C1 is sound.
C5_OverwriteIsNewest ==
    (last.op = "set" /\ last.key \in KeysOf(last.pre) /\ "" \notin KeysOf(last.pre)) =>
        /\ Len(cache) > 0
        /\ cache[Len(cache)].key = last.key
        /\ cache[Len(cache)].timestamp = now

(***************************************************************************)
(* Claims about ErrorHandler.withRetry, checked under SpecRetry.  `calls`  *)
(* lists what each invocation of operation() settled with, `sleeps` the    *)
(* backoff delays, `outcome` what the call returned or threw.              *)
(***************************************************************************)
Ended == pc \in {"returned", "thrown"}

\* a retryable failure as the claims define it: no status code, 429, or >= 500
RetryableFailure(result) ==
    /\ ~result.ok
    /\ \/ result.error.statusCode = NoStatus
       \/ result.error.statusCode = 429
       \/ result.error.statusCode >= 500

\* a fatal failure as the claims define it: a status code in [400,500) other than 429
FatalFailure(result) ==
    /\ ~result.ok
    /\ result.error.statusCode >= 400
    /\ result.error.statusCode < 500
    /\ result.error.statusCode # 429

AllRetryableFailures == \A i \in 1..Len(calls) : RetryableFailure(calls[i])

TypedClasses ==
    {"PackageReadmeMcpError", "PackageNotFoundError", "VersionNotFoundError",
     "RateLimitError", "NetworkError", "InvalidPackageNameError"}

\* C6: an operation that fails every time with a retryable error is invoked
\* exactly maxRetries times, then withRetry fails with a typed error; there is
\* never an invocation beyond maxRetries.
C6_RetryBound ==
    /\ Len(calls) <= maxRetries
    /\ AllRetryableFailures =>
          /\ pc # "returned"
          /\ pc = "call" => Len(calls) < maxRetries
          /\ pc = "thrown" =>
                /\ Len(calls) = maxRetries
                /\ outcome.kind = "throw"
                /\ outcome.error.cls \in TypedClasses

\* C6 witness: three retryable failures out of three attempts, and the call threw.
C6_Witness ==
    /\ pc = "thrown"
    /\ maxRetries = 3
    /\ Len(calls) = 3
    /\ AllRetryableFailures

\* C7: a failure with a status code in [400,500) other than 429 ends the call at
\* once: it is the last invocation, no sleep follows it, and withRetry throws
\* that same error.
C7_FatalAborts ==
    \A i \in 1..Len(calls) :
        FatalFailure(calls[i]) =>
            /\ i = Len(calls)
            /\ Len(sleeps) = i - 1
            /\ pc = "thrown"
            /\ outcome.kind = "throw"
            /\ outcome.error = calls[i].error

\* C7 witness: a fatal failure in the second of three attempts.
C7_Witness ==
    /\ maxRetries = 3
    /\ Len(calls) = 2
    /\ RetryableFailure(calls[1])
    /\ FatalFailure(calls[2])
    /\ pc = "thrown"

\* C8: when invocation k is the first to succeed and the earlier ones failed
\* with retryable errors, the operation is invoked exactly k times and withRetry
\* returns that invocation's result, with no further invocation or sleep.
C8_StopsAtFirstSuccess ==
    \A k \in 1..Len(calls) :
        (calls[k].ok /\ \A j \in 1..(k - 1) : RetryableFailure(calls[j])) =>
            /\ Len(calls) = k
            /\ Len(sleeps) = k - 1
            /\ pc = "returned"
            /\ outcome.kind = "return"
            /\ outcome.value = calls[k].value

\* C8 witness: success in the third attempt after two retryable failures.
C8_Witness ==
    /\ Len(calls) = 3
    /\ RetryableFailure(calls[1])
    /\ RetryableFailure(calls[2])
    /\ calls[3].ok
    /\ pc = "returned"

\* the failures followed by a backoff sleep: the retryable failures of the
\* attempts before the last allowed one
SleepsDue ==
    Cardinality({i \in 1..Len(calls) : RetryableFailure(calls[i]) /\ i < maxRetries})

\* C9: the sleep after the retryable failure of attempt k < maxRetries lasts
\* baseDelay * 2^(k-1); nothing else sleeps, so n failing attempts sleep
\* baseDelay * (2^(n-1) - 1) in total.
C9_ExponentialBackoff ==
    /\ Len(sleeps) = SleepsDue
    /\ \A k \in 1..Len(sleeps) : sleeps[k] = baseDelay * 2^(k - 1)
    /\ (pc = "thrown" /\ AllRetryableFailures) =>
          /\ Len(sleeps) = maxRetries - 1
          /\ LET total[k \in 0..Len(sleeps)] ==
                     IF k = 0 THEN 0 ELSE total[k - 1] + sleeps[k]
             IN  total[Len(sleeps)] = baseDelay * (2^(maxRetries - 1) - 1)

\* C9 witness: three failing attempts slept baseDelay and 2 * baseDelay.
C9_Witness ==
    /\ pc = "thrown"
    /\ maxRetries = 3
    /\ AllRetryableFailures
    /\ sleeps = <<baseDelay, 2 * baseDelay>>

\* withRetry failed after its final allowed attempt
Exhausted == pc = "thrown" /\ Len(calls) = maxRetries

\* C10, as claimed: the error raised on exhaustion is typed; a typed last
\* failure is raised unchanged; an untyped one becomes a NetworkError or a
\* RateLimitError.
C10_ExhaustionErrorClaimed ==
    Exhausted =>
        LET failure == calls[Len(calls)].error
        IN  /\ outcome.error.cls \in TypedClasses
            /\ failure.cls \in TypedClasses => outcome.error = failure
            /\ failure.cls \notin TypedClasses =>
                   outcome.error.cls \in {"NetworkError", "RateLimitError"}

\* C10, amended: the error raised on exhaustion is typed; a typed last failure
\* is raised unchanged; an untyped Error becomes a NetworkError or a
\* RateLimitError; a thrown value that is no Error becomes a plain
\* PackageReadmeMcpError with code UNKNOWN_ERROR.
C10_ExhaustionError ==
    Exhausted =>
        LET failure == calls[Len(calls)].error
        IN  /\ outcome.error.cls \in TypedClasses
            /\ failure.cls \in TypedClasses => outcome.error = failure
            /\ failure.cls \in {"Error", "TypeError"} =>
                   outcome.error.cls \in {"NetworkError", "RateLimitError"}
            /\ failure.cls \notin (TypedClasses \cup {"Error", "TypeError"}) =>
                   /\ outcome.error.cls = "PackageReadmeMcpError"
                   /\ outcome.error.code = "UNKNOWN_ERROR"

\* C10 witness: the last of three attempts threw a value that is no Error.
C10_Witness ==
    /\ Exhausted
    /\ maxRetries = 3
    /\ calls[Len(calls)].error.cls = "string"
    /\ outcome.error.code = "UNKNOWN_ERROR"

(***************************************************************************)
(* Strings.  A JavaScript string is modelled as the sequence of its        *)
(* characters, each a one-character string; "" is <<>>.                    *)
(***************************************************************************)
\* the printable ASCII characters in code order, from the space (code 32) to the tilde (126);
\* the double quote, the backslash and the grave accent are spelled out
Printable ==
    <<" ", "!", "quote", "#", "$", "%", "&", "'", "(", ")", "*", "+", ",", "-", ".", "/",
      "0", "1", "2", "3", "4", "5", "6", "7", "8", "9", ":", ";", "<", "=", ">", "?",
      "@", "A", "B", "C", "D", "E", "F", "G", "H", "I", "J", "K", "L", "M", "N", "O",
      "P", "Q", "R", "S", "T", "U", "V", "W", "X", "Y", "Z", "[", "backslash", "]", "^", "_",
      "grave", "a", "b", "c", "d", "e", "f", "g", "h", "i", "j", "k", "l", "m", "n", "o",
      "p", "q", "r", "s", "t", "u", "v", "w", "x", "y", "z", "{", "|", "}", "~">>

\* the UTF-16 code unit of a character, which for ASCII is also its only UTF-8 byte
CharCode(c) == 31 + (CHOOSE i \in 1..Len(Printable) : Printable[i] = c)

FromCharCode(n) == Printable[n - 31]

IsDigit(c) == c \in {"0", "1", "2", "3", "4", "5", "6", "7", "8", "9"}

IsUpper(c) == c \in {Printable[i] : i \in 34..59}

IsLower(c) == c \in {Printable[i] : i \in 66..91}

IsAlnum(c) == IsDigit(c) \/ IsUpper(c) \/ IsLower(c)

\* String.prototype.toLowerCase, character by character
ToLowerChar(c) == IF IsUpper(c) THEN FromCharCode(CharCode(c) + 32) ELSE c

ToLowerCase(s) == [i \in 1..Len(s) |-> ToLowerChar(s[i])]

\* String.prototype.includes
StringIncludes(s, word) ==
    \E k \in 0..(Len(s) - Len(word)) : \A i \in 1..Len(word) : s[k + i] = word[i]

StartsWith(s, c) == Len(s) > 0 /\ s[1] = c

EndsWith(s, c) == Len(s) > 0 /\ s[Len(s)] = c

RECURSIVE Number(_)
\* Number(s) of a string of decimal digits; Number("") is 0
Number(s) ==
    IF s = <<>> THEN 0
    ELSE 10 * Number(SubSeq(s, 1, Len(s) - 1)) + (CharCode(s[Len(s)]) - 48)

RECURSIVE Split(_, _)
\* String.prototype.split on a one-character separator: never an empty array
Split(s, sep) ==
    IF \A i \in 1..Len(s) : s[i] # sep THEN <<s>>
    ELSE LET k == CHOOSE i \in 1..Len(s) : s[i] = sep /\ \A j \in 1..(i - 1) : s[j] # sep
         IN <<SubSeq(s, 1, k - 1)>> \o Split(SubSeq(s, k + 1, Len(s)), sep)

IsSpace(c) == c = " "

RECURSIVE TrimStart(_)
TrimStart(s) == IF s # <<>> /\ IsSpace(s[1]) THEN TrimStart(Tail(s)) ELSE s

RECURSIVE TrimEnd(_)
TrimEnd(s) ==
    IF s # <<>> /\ IsSpace(s[Len(s)]) THEN TrimEnd(SubSeq(s, 1, Len(s) - 1)) ELSE s

\* String.prototype.trim
Trim(s) == TrimEnd(TrimStart(s))

Sign(n) == IF n < 0 THEN -1 ELSE IF n > 0 THEN 1 ELSE 0

RECURSIVE LexCompare(_, _, _)
\* lexicographic comparison of two strings by the weight w of their characters: -1, 0 or 1
LexCompare(a, b, w) ==
    IF a = <<>> /\ b = <<>> THEN 0
    ELSE IF a = <<>> THEN -1
    ELSE IF b = <<>> THEN 1
    ELSE IF w[a[1]] # w[b[1]] THEN Sign(w[a[1]] - w[b[1]])
    ELSE LexCompare(Tail(a), Tail(b), w)

\* the value undefined, which is no string
Undefined == <<"undefined">>

\* !s for a string or undefined
Falsy(s) == s = <<>> \/ s = Undefined

(***************************************************************************)
(* String.prototype.localeCompare.  The result depends on the runtime:     *)
(* with ICU the strings are collated (punctuation before digits before     *)
(* letters, letters alphabetically whatever their case, and lowercase      *)
(* before uppercase only to break a tie); without ICU they are compared    *)
(* code unit by code unit.                                                 *)
(***************************************************************************)
Chars == {Printable[i] : i \in 1..Len(Printable)}

CodeUnitWeight == [c \in Chars |-> CharCode(c)]

\* the characters in the order of the root collation, letters in lowercase
IcuOrder ==
    <<" ", "_", "-", ",", ";", ":", "!", "?", ".", "'", "quote", "(", ")", "[", "]", "{",
      "}", "@", "*", "/", "backslash", "&", "#", "%", "grave", "^", "+", "<", "=", ">",
      "|", "~", "$", "0", "1", "2", "3", "4", "5", "6", "7", "8", "9", "a", "b", "c",
      "d", "e", "f", "g", "h", "i", "j", "k", "l", "m", "n", "o", "p", "q", "r", "s",
      "t", "u", "v", "w", "x", "y", "z">>

IcuPrimaryWeight ==
    [c \in Chars |-> CHOOSE i \in 1..Len(IcuOrder) : IcuOrder[i] = ToLowerChar(c)]

IcuCaseWeight == [c \in Chars |-> IF IsUpper(c) THEN 1 ELSE 0]

IcuCompare(a, b) ==
    LET primary == LexCompare(a, b, IcuPrimaryWeight)
    IN IF primary # 0 THEN primary ELSE LexCompare(a, b, IcuCaseWeight)

LocaleCompare(a, b) ==
    IF icu THEN IcuCompare(a, b) ELSE LexCompare(a, b, CodeUnitWeight)

(***************************************************************************)
(* VersionResolver: comparison, ranges and pre-releases.                   *)
(***************************************************************************)
RECURSIVE DigitRun(_, _)
\* \d+ from position i: the position of the last digit matched, i - 1 if none is
DigitRun(s, i) ==
    IF i <= Len(s) /\ IsDigit(s[i]) THEN DigitRun(s, i + 1) ELSE i - 1

RECURSIVE DottedRun(_, _)
\* (?:\.\d+)* after position e: the position of the last character matched
DottedRun(s, e) ==
    IF e + 2 <= Len(s) /\ s[e + 1] = "." /\ IsDigit(s[e + 2])
    THEN DottedRun(s, DigitRun(s, e + 2))
    ELSE e

\* the length of the match of ^(\d+(?:\.\d+)*), 0 if there is none
NumericPrefix(s) ==
    IF DigitRun(s, 1) = 0 THEN 0 ELSE DottedRun(s, DigitRun(s, 1))

\* parseVersion of VersionResolver.compareVersions
ParseVersion(version) ==
    LET n == NumericPrefix(version)
    IN IF n = 0 THEN [numbers |-> <<0>>, suffix |-> version]
       ELSE LET parts == Split(SubSeq(version, 1, n), ".")
            IN [numbers |-> [i \in 1..Len(parts) |-> Number(parts[i])],
                suffix |-> SubSeq(version, n + 1, Len(version))]

\* numbers[i] || 0, with i counted from 1
NumberAt(numbers, i) == IF i <= Len(numbers) THEN numbers[i] ELSE 0

Max(m, n) == IF m >= n THEN m ELSE n

\* mutant of CompareVersions: a missing suffix on either side makes the first
\* argument the greater one
CompareVersionsSuffixSlip(a, b) ==
    LET versionA == ParseVersion(a)
        versionB == ParseVersion(b)
        maxLength == Max(Len(versionA.numbers), Len(versionB.numbers))
        differ == {i \in 1..maxLength :
                      NumberAt(versionA.numbers, i) # NumberAt(versionB.numbers, i)}
    IN IF differ # {}
       THEN LET i == CHOOSE k \in differ : \A j \in differ : k <= j
            IN NumberAt(versionA.numbers, i) - NumberAt(versionB.numbers, i)
       ELSE IF versionA.suffix # versionB.suffix
       THEN IF versionA.suffix = <<>> \/ versionB.suffix = <<>> THEN 1
            ELSE LocaleCompare(versionA.suffix, versionB.suffix)
       ELSE 0

\* VersionResolver.compareVersions(a, b)
CompareVersions(a, b) ==
    LET versionA == ParseVersion(a)
        versionB == ParseVersion(b)
        maxLength == Max(Len(versionA.numbers), Len(versionB.numbers))
        differ == {i \in 1..maxLength :
                      NumberAt(versionA.numbers, i) # NumberAt(versionB.numbers, i)}
    IN IF differ # {}
       THEN LET i == CHOOSE k \in differ : \A j \in differ : k <= j
            IN NumberAt(versionA.numbers, i) - NumberAt(versionB.numbers, i)
       ELSE IF versionA.suffix # versionB.suffix
       THEN IF versionA.suffix = <<>> /\ versionB.suffix # <<>> THEN 1
            ELSE IF versionA.suffix # <<>> /\ versionB.suffix = <<>> THEN -1
            ELSE LocaleCompare(versionA.suffix, versionB.suffix)
       ELSE 0

\* mutant of VersionMatchesRange: the lower bound is always exclusive
VersionMatchesRangeOpenMin(version, minVersion, maxVersion, includeMin, includeMax) ==
    /\ ~Falsy(minVersion) => ~(CompareVersions(version, minVersion) <= 0)
    /\ ~Falsy(maxVersion) =>
           LET comparison == CompareVersions(version, maxVersion)
           IN ~(IF includeMax THEN comparison > 0 ELSE comparison >= 0)

\* VersionResolver.versionMatchesRange
VersionMatchesRange(version, minVersion, maxVersion, includeMin, includeMax) ==
    /\ ~Falsy(minVersion) =>
           LET comparison == CompareVersions(version, minVersion)
           IN ~(IF includeMin THEN comparison < 0 ELSE comparison <= 0)
    /\ ~Falsy(maxVersion) =>
           LET comparison == CompareVersions(version, maxVersion)
           IN ~(IF includeMax THEN comparison > 0 ELSE comparison >= 0)

\* ^[0-9]+(\.[0-9]+)*$
IsNumeric(s) == s # <<>> /\ NumericPrefix(s) = Len(s)

\* VersionResolver.isSpecificVersion: ^[0-9]+(\.[0-9]+)*(-[a-zA-Z0-9.-]+)?$
IsSpecificVersion(version) ==
    IF \A i \in 1..Len(version) : version[i] # "-" THEN IsNumeric(version)
    ELSE LET k == CHOOSE i \in 1..Len(version) :
                      version[i] = "-" /\ \A j \in 1..(i - 1) : version[j] # "-"
         IN /\ IsNumeric(SubSeq(version, 1, k - 1))
            /\ k < Len(version)
            /\ \A i \in (k + 1)..Len(version) :
                   IsAlnum(version[i]) \/ version[i] \in {".", "-"}

\* VersionResolver.isVersionRange: an opening bracket, at least one character, a closing one
IsVersionRange(version) ==
    /\ Len(version) >= 3
    /\ version[1] \in {"[", "("}
    /\ version[Len(version)] \in {"]", ")"}

\* range.replace(/^[\[\(]|[\]\)]$/g, '')
StripBrackets(range) ==
    LET opened == IF range # <<>> /\ range[1] \in {"[", "("} THEN Tail(range) ELSE range
    IN IF opened # <<>> /\ opened[Len(opened)] \in {"]", ")"}
       THEN SubSeq(opened, 1, Len(opened) - 1)
       ELSE opened

\* parts[i]?.trim() || undefined, with i counted from 1
TrimmedPart(parts, i) ==
    IF i > Len(parts) \/ Trim(parts[i]) = <<>> THEN Undefined ELSE Trim(parts[i])

\* VersionResolver.parseVersionRange
ParseVersionRange(range) ==
    LET parts == Split(StripBrackets(range), ",")
    IN [minVersion |-> TrimmedPart(parts, 1),
        maxVersion |-> TrimmedPart(parts, 2),
        includeMin |-> StartsWith(range, "["),
        includeMax |-> EndsWith(range, "]")]

PreReleaseKeywords ==
    {<<"a", "l", "p", "h", "a">>, <<"b", "e", "t", "a">>, <<"r", "c">>,
     <<"s", "n", "a", "p", "s", "h", "o", "t">>,
     <<"m", "i", "l", "e", "s", "t", "o", "n", "e">>, <<"c", "r">>, <<"p", "r">>,
     <<"d", "e", "v">>, <<"p", "r", "e", "v", "i", "e", "w">>,
     <<"e", "a", "r", "l", "y">>,
     <<"e", "x", "p", "e", "r", "i", "m", "e", "n", "t", "a", "l">>}

\* mutant of IsPreRelease: the version is not lowercased
IsPreReleaseCaseSensitive(version) ==
    \E keyword \in PreReleaseKeywords : StringIncludes(version, keyword)

\* VersionResolver.isPreRelease
IsPreRelease(version) ==
    LET lowerVersion == ToLowerCase(version)
    IN \E keyword \in PreReleaseKeywords : StringIncludes(lowerVersion, keyword)

(***************************************************************************)
(* MavenCentralApi: the version list and the existence of a version, as    *)
(* computed from what the upstream holds for one coordinate.  The upstream *)
(* answers every request here: a search with its documents, a POM request  *)
(* with the file or with 404.                                              *)
(***************************************************************************)
\* parseVersion of MavenCentralApi.compareVersions: the digits and dots of the
\* version, split at the dots, as three numbers
ApiParseVersion(version) ==
    LET kept == SelectSeq(version, LAMBDA c : IsDigit(c) \/ c = ".")
        split == Split(kept, ".")
        parts == [i \in 1..Len(split) |-> Number(split[i])]
    IN SubSeq(parts \o <<0, 0, 0>>, 1, 3)

\* MavenCentralApi.compareVersions(a, b)
ApiCompareVersions(a, b) ==
    LET versionA == ApiParseVersion(a)
        versionB == ApiParseVersion(b)
        differ == {i \in 1..3 : versionA[i] # versionB[i]}
    IN IF differ # {}
       THEN LET i == CHOOSE k \in differ : \A j \in differ : k <= j
            IN versionA[i] - versionB[i]
       ELSE 0

\* array.indexOf(version) === index
FirstOccurrences(list) ==
    LET Keep(i) == \A j \in 1..(i - 1) : list[j] # list[i]
        RECURSIVE From(_)
        From(i) == IF i > Len(list) THEN <<>>
                   ELSE IF Keep(i) THEN <<list[i]>> \o From(i + 1)
                   ELSE From(i + 1)
    IN From(1)

RECURSIVE SortDescending(_)
\* Array.prototype.sort((a, b) => compareVersions(b, a)): the sort is stable, so
\* an element goes behind the elements it does not precede
SortDescending(list) ==
    IF list = <<>> THEN <<>>
    ELSE LET sorted == SortDescending(SubSeq(list, 1, Len(list) - 1))
             x == list[Len(list)]
             behind == {i \in 1..Len(sorted) : ApiCompareVersions(x, sorted[i]) <= 0}
             k == IF behind = {} THEN 0 ELSE CHOOSE i \in behind : \A j \in behind : j <= i
         IN SubSeq(sorted, 1, k) \o <<x>> \o SubSeq(sorted, k + 1, Len(sorted))

VersionNotFoundError(packageName, version) ==
    [cls |-> "VersionNotFoundError",
     message |-> <<"Version", version, "of", "package", packageName, "not", "found">>,
     code |-> "VERSION_NOT_FOUND", statusCode |-> 404]

\* MavenCentralApi.getVersions: the operation it retries, once the search has answered
VersionsOf(response, groupId, artifactId) ==
    IF response.numFound = 0
    THEN Rejected(PackageNotFoundError(groupId \o ":" \o artifactId))
    ELSE Resolved(SortDescending(FirstOccurrences(
             SelectSeq(response.docs, LAMBDA version : ~Falsy(version)))))

\* MavenCentralApi.getVersions, with nothing cached
GetVersions(groupId, artifactId) ==
    VersionsOf([numFound |-> upstream.numFound, docs |-> upstream.docs], groupId, artifactId)

\* MavenCentralApi.getLatestVersion
GetLatestVersion(groupId, artifactId) ==
    LET versions == GetVersions(groupId, artifactId)
    IN IF ~versions.ok THEN versions
       ELSE IF Len(versions.value) = 0
       THEN Rejected(PackageNotFoundError(groupId \o ":" \o artifactId))
       ELSE Resolved(versions.value[1])

\* MavenCentralApi.versionExists: getPomXml succeeds, or throws VersionNotFoundError
VersionExists(groupId, artifactId, version) == version \in upstream.poms

(***************************************************************************)
(* VersionResolver: resolution of a version specifier.                     *)
(***************************************************************************)
Latest == <<"l", "a", "t", "e", "s", "t">>

\* mutant of ResolveVersionRange: the error names the artifact, not the coordinate
ResolveVersionRangeNamesArtifact(groupId, artifactId, range) ==
    LET versions == GetVersions(groupId, artifactId)
        parsed == ParseVersionRange(range)
        Matches(version) ==
            VersionMatchesRange(version, parsed.minVersion, parsed.maxVersion,
                                parsed.includeMin, parsed.includeMax)
    IN IF ~versions.ok THEN versions
       ELSE LET matchingVersions == SelectSeq(versions.value, Matches)
            IN IF Len(matchingVersions) = 0
               THEN Rejected(VersionNotFoundError(artifactId, range))
               ELSE Resolved(matchingVersions[1])

\* VersionResolver.resolveVersionRange
ResolveVersionRange(groupId, artifactId, range) ==
    LET versions == GetVersions(groupId, artifactId)
        parsed == ParseVersionRange(range)
        Matches(version) ==
            VersionMatchesRange(version, parsed.minVersion, parsed.maxVersion,
                                parsed.includeMin, parsed.includeMax)
    IN IF ~versions.ok THEN versions
       ELSE LET matchingVersions == SelectSeq(versions.value, Matches)
            IN IF Len(matchingVersions) = 0
               THEN Rejected(VersionNotFoundError(groupId \o ":" \o artifactId, range))
               ELSE Resolved(matchingVersions[1])

\* mutant of ResolveVersion: a specific or literal version is returned unverified
ResolveVersionUnverified(groupId, artifactId, versionSpec) ==
    IF versionSpec = Latest \/ Falsy(versionSpec)
    THEN GetLatestVersion(groupId, artifactId)
    ELSE IF IsSpecificVersion(versionSpec) THEN Resolved(versionSpec)
    ELSE IF IsVersionRange(versionSpec)
    THEN ResolveVersionRange(groupId, artifactId, versionSpec)
    ELSE Resolved(versionSpec)

\* VersionResolver.resolveVersion
ResolveVersion(groupId, artifactId, versionSpec) ==
    LET packageName == groupId \o ":" \o artifactId
    IN IF versionSpec = Latest \/ Falsy(versionSpec)
       THEN GetLatestVersion(groupId, artifactId)
       ELSE IF IsSpecificVersion(versionSpec)
       THEN IF VersionExists(groupId, artifactId, versionSpec)
            THEN Resolved(versionSpec)
            ELSE Rejected(VersionNotFoundError(packageName, versionSpec))
       ELSE IF IsVersionRange(versionSpec)
       THEN ResolveVersionRange(groupId, artifactId, versionSpec)
       ELSE IF VersionExists(groupId, artifactId, versionSpec)
            THEN Resolved(versionSpec)
            ELSE Rejected(VersionNotFoundError(packageName, versionSpec))

\* versions[0] of an array
First(versions) == IF Len(versions) = 0 THEN Undefined ELSE versions[1]

\* VersionResolver.getLatestStableVersion
GetLatestStableVersion(groupId, artifactId) ==
    LET versions == GetVersions(groupId, artifactId)
    IN IF ~versions.ok THEN versions
       ELSE LET stableVersions ==
                    SelectSeq(versions.value, LAMBDA version : ~IsPreRelease(version))
            IN IF Len(stableVersions) = 0
               THEN Resolved(First(versions.value))
               ELSE Resolved(stableVersions[1])

(***************************************************************************)
(* The comparison functions of VersionResolver as a state machine: each    *)
(* step is one call, on arguments drawn from the pools below, under the    *)
(* collation the runtime was started with.                                 *)
(***************************************************************************)
VersionPool ==
    {<<"1", ".", "0">>, <<"1", ".", "0", ".", "0">>, <<"1", ".", "0", ".", "1">>, <<"1", ".", "9">>, <<"1", ".", "1", "0">>, <<"2", ".", "0">>,
     <<"1", ".", "0", "-", "a", "l", "p", "h", "a">>, <<"1", ".", "0", "-", "b", "e", "t", "a">>, <<"1", ".", "0", "-", "S", "N", "A", "P", "S", "H", "O", "T">>, <<"1", ".", "0", "-", "R", "C", "1">>, <<"1", ".", "0", "-", "r", "c", "1">>,
     <<"i", "n", "v", "a", "l", "i", "d">>, <<>>}

\* the bounds of a range: a version, the empty string, or undefined
BoundPool == {<<"1", ".", "0">>, <<"1", ".", "0", "-", "b", "e", "t", "a">>, <<"1", ".", "9">>, <<>>, Undefined}

CompareInit ==
    /\ CacheIdle
    /\ RetryIdle
    /\ ApiIdle
    /\ icu \in BOOLEAN
    /\ upstream = NoUpstream
    /\ call = NoCall
    /\ prev = NoCall

\* the caller has taken the result of the call
Return ==
    /\ call # NoCall
    /\ call' = NoCall
    /\ UNCHANGED <<icu, upstream, prev>>
    /\ UNCHANGED cacheVars
    /\ UNCHANGED retryVars
    /\ UNCHANGED apiVars

CompareVersionsCall(a, b) ==
    /\ call = NoCall
    /\ call' = [op |-> "compareVersions", args |-> <<a, b>>, ret |-> CompareVersions(a, b)]
    /\ UNCHANGED <<icu, upstream, prev>>
    /\ UNCHANGED cacheVars
    /\ UNCHANGED retryVars
    /\ UNCHANGED apiVars

VersionMatchesRangeCall(version, minVersion, maxVersion, includeMin, includeMax) ==
    /\ call = NoCall
    /\ call' = [op |-> "versionMatchesRange",
                args |-> <<version, minVersion, maxVersion, includeMin, includeMax>>,
                ret |-> VersionMatchesRange(version, minVersion, maxVersion,
                                            includeMin, includeMax)]
    /\ UNCHANGED <<icu, upstream, prev>>
    /\ UNCHANGED cacheVars
    /\ UNCHANGED retryVars
    /\ UNCHANGED apiVars

CompareNext ==
    \/ \E a \in VersionPool, b \in VersionPool : CompareVersionsCall(a, b)
    \/ \E version \in VersionPool, minVersion \in BoundPool, maxVersion \in BoundPool,
          includeMin \in BOOLEAN, includeMax \in BOOLEAN :
           VersionMatchesRangeCall(version, minVersion, maxVersion, includeMin, includeMax)
    \/ Return

SpecCompare == CompareInit /\ [][CompareNext]_vars

\* C13: versionMatchesRange(v, min, max, includeMin, includeMax) is true iff
\* (min is absent, or compare(v, min) > 0, or compare(v, min) = 0 and includeMin) and
\* (max is absent, or compare(v, max) < 0, or compare(v, max) = 0 and includeMax),
\* a bound being absent when it is undefined or the empty string; with both bounds
\* absent every version matches whatever the flags
C13_RangeMatching ==
    call.op = "versionMatchesRange" =>
        LET v == call.args[1]
            min == call.args[2]
            max == call.args[3]
            includeMin == call.args[4]
            includeMax == call.args[5]
            minAbsent == min \in {Undefined, <<>>}
            maxAbsent == max \in {Undefined, <<>>}
        IN /\ call.ret <=>
                  /\ \/ minAbsent
                     \/ CompareVersions(v, min) > 0
                     \/ CompareVersions(v, min) = 0 /\ includeMin
                  /\ \/ maxAbsent
                     \/ CompareVersions(v, max) < 0
                     \/ CompareVersions(v, max) = 0 /\ includeMax
           /\ minAbsent /\ maxAbsent => call.ret

\* a version equal to an inclusive lower bound and below the upper bound matches
C13_Witness ==
    /\ call.op = "versionMatchesRange"
    /\ call.args[2] = <<"1", ".", "0">>
    /\ call.args[3] = <<"1", ".", "9">>
    /\ CompareVersions(call.args[1], call.args[2]) = 0
    /\ call.args[4]
    /\ call.ret

\* C14: version comparison is a total order on parsed versions: for all a, b, c the
\* result of compare(a, b) is negative, zero or positive, its sign is the opposite
\* of the sign of compare(b, a), compare(a, a) = 0, and compare(a, b) <= 0 with
\* compare(b, c) <= 0 implies compare(a, c) <= 0
C14_TotalOrder ==
    call.op = "compareVersions" =>
        LET a == call.args[1]
            b == call.args[2]
        IN /\ call.ret \in Int
           /\ Sign(call.ret) = -Sign(CompareVersions(b, a))
           /\ a = b => call.ret = 0
           /\ \A c \in VersionPool :
                  call.ret <= 0 /\ CompareVersions(b, c) <= 0 => CompareVersions(a, c) <= 0

\* two suffixed versions with equal numbers were compared, under ICU collation
C14_Witness ==
    /\ call.op = "compareVersions"
    /\ icu
    /\ call.args[1] = <<"1", ".", "0", "-", "S", "N", "A", "P", "S", "H", "O", "T">>
    /\ call.args[2] = <<"1", ".", "0", "-", "a", "l", "p", "h", "a">>
    /\ call.ret > 0

\* the reference rule of comparison: the numbers pairwise, the shorter sequence
\* padded with zeros; then no suffix above any suffix; then the suffixes as plain
\* strings, code unit by code unit
ReferenceCompare(a, b) ==
    LET pa == ParseVersion(a)
        pb == ParseVersion(b)
        n == Max(Len(pa.numbers), Len(pb.numbers))
        Padded(p) == [i \in 1..n |-> IF i <= Len(p.numbers) THEN p.numbers[i] ELSE 0]
        na == Padded(pa)
        nb == Padded(pb)
    IN IF na # nb
       THEN LET i == CHOOSE k \in 1..n : na[k] # nb[k] /\ \A j \in 1..(k - 1) : na[j] = nb[j]
            IN IF na[i] < nb[i] THEN -1 ELSE 1
       ELSE IF pa.suffix = pb.suffix THEN 0
       ELSE IF pa.suffix = <<>> THEN 1
       ELSE IF pb.suffix = <<>> THEN -1
       ELSE LexCompare(pa.suffix, pb.suffix, CodeUnitWeight)

\* C15: compareVersions equals the reference rule for every pair of versions
C15_ReferenceRule ==
    call.op = "compareVersions" =>
        Sign(call.ret) = ReferenceCompare(call.args[1], call.args[2])

(***************************************************************************)
(* Version resolution as a state machine: the upstream holds some search   *)
(* documents and some POM files for one coordinate, and each step is one   *)
(* call of resolveVersion or getLatestStableVersion.                       *)
(***************************************************************************)
\* the largest number of documents the search returns for the coordinate
MaxDocs == 2

GroupId == "com.example"

ArtifactId == "test-artifact"

\* the version field of a search document: doc.v || doc.latestVersion
DocPool ==
    {<<"2", ".", "0", ".", "0", "-", "S", "N", "A", "P", "S", "H", "O", "T">>, <<"1", ".", "9", ".", "0">>, <<"1", ".", "0", ".", "0">>,
     <<"1", ".", "0", ".", "0", "-", "R", "C", "1">>, <<"1", ".", "0", ".", "0", "-", "b", "e", "t", "a">>, Undefined}

\* the versions a POM file may exist for
PomPool == {<<"1", ".", "0", ".", "0">>, <<"c", "u", "s", "t", "o", "m">>}

\* the version specifiers resolved
SpecPool ==
    {Latest, <<>>, <<"1", ".", "0", ".", "0">>, <<"9", ".", "9", ".", "9">>, <<"c", "u", "s", "t", "o", "m">>, <<"[", "0", ".", "9", ",", "1", ".", "9", ")">>, <<"(", ",", "2", ".", "0", "]">>, <<"[", "3", ".", "0", ",", ")">>}

ResolverInit ==
    /\ CacheIdle
    /\ RetryIdle
    /\ ApiIdle
    /\ icu \in BOOLEAN
    /\ \E n \in 0..MaxDocs : \E docs \in [1..n -> DocPool] : \E poms \in SUBSET PomPool :
           upstream = [numFound |-> n, docs |-> docs, poms |-> poms]
    /\ call = NoCall
    /\ prev = NoCall

ResolveVersionCall(versionSpec) ==
    /\ call = NoCall
    /\ call' = [op |-> "resolveVersion", args |-> <<GroupId, ArtifactId, versionSpec>>,
                ret |-> ResolveVersion(GroupId, ArtifactId, versionSpec)]
    /\ UNCHANGED <<icu, upstream, prev>>
    /\ UNCHANGED cacheVars
    /\ UNCHANGED retryVars
    /\ UNCHANGED apiVars

GetLatestStableVersionCall ==
    /\ call = NoCall
    /\ call' = [op |-> "getLatestStableVersion", args |-> <<GroupId, ArtifactId>>,
                ret |-> GetLatestStableVersion(GroupId, ArtifactId)]
    /\ UNCHANGED <<icu, upstream, prev>>
    /\ UNCHANGED cacheVars
    /\ UNCHANGED retryVars
    /\ UNCHANGED apiVars

ResolverNext ==
    \/ \E versionSpec \in SpecPool : ResolveVersionCall(versionSpec)
    \/ GetLatestStableVersionCall
    \/ Return

SpecResolver == ResolverInit /\ [][ResolverNext]_vars

Coordinate == GroupId \o ":" \o ArtifactId

\* the members of the version list getVersions yields, none if it fails
KnownVersions ==
    LET versions == GetVersions(GroupId, ArtifactId)
    IN IF versions.ok THEN {versions.value[i] : i \in 1..Len(versions.value)} ELSE {}

\* the specifier of the call is a range: neither "latest" nor empty nor specific
RangeCall ==
    /\ call.op = "resolveVersion"
    /\ call.args[3] # Latest
    /\ call.args[3] # <<>>
    /\ ~IsSpecificVersion(call.args[3])
    /\ IsVersionRange(call.args[3])

\* the known versions that match the range of the call
MatchingVersions ==
    LET parsed == ParseVersionRange(call.args[3])
    IN {v \in KnownVersions :
            VersionMatchesRange(v, parsed.minVersion, parsed.maxVersion,
                                parsed.includeMin, parsed.includeMax)}

\* C12: for a range specifier and the version list getVersions produces,
\* resolveVersion returns a member of the list that matches the range and that no
\* other matching member exceeds under the resolver's comparison; if no member
\* matches it fails with VersionNotFound naming the original range string
C12_RangeReturnsHighest ==
    RangeCall /\ GetVersions(GroupId, ArtifactId).ok =>
        IF MatchingVersions = {}
        THEN /\ ~call.ret.ok
             /\ call.ret.error = VersionNotFoundError(Coordinate, call.args[3])
        ELSE /\ call.ret.ok
             /\ call.ret.value \in MatchingVersions
             /\ \A w \in MatchingVersions : CompareVersions(w, call.ret.value) <= 0

\* the specifier of the call is exact or literal: neither "latest" nor empty nor a range
ExactCall ==
    /\ call.op = "resolveVersion"
    /\ call.args[3] # Latest
    /\ call.args[3] # <<>>
    /\ ~IsVersionRange(call.args[3])

NotFound(e) == e.cls \in {"PackageNotFoundError", "VersionNotFoundError"} /\ e.statusCode = 404

\* C17: every value returned by resolveVersion and by getLatestStableVersion is a
\* member of the version list getVersions yields for the coordinate; when no member
\* can be returned the call fails with a typed not-found error
C17_ResultsAreKnown ==
    call.op \in {"resolveVersion", "getLatestStableVersion"} =>
        IF call.ret.ok THEN call.ret.value \in KnownVersions
        ELSE NotFound(call.ret.error)

ContainsPreReleaseWord(version) ==
    \E keyword \in PreReleaseKeywords :
        \E k \in 0..(Len(version) - Len(keyword)) :
            \A i \in 1..Len(keyword) : ToLowerChar(version[k + i]) = keyword[i]

\* C19: getLatestStableVersion returns the first entry, in list order, of the
\* version list that is not a pre-release, and the first entry of the whole list
\* when every entry is a pre-release (the list having an entry)
C19_LatestStable ==
    call.op = "getLatestStableVersion" /\ KnownVersions # {} =>
        LET versions == GetVersions(GroupId, ArtifactId).value
            stable == {i \in 1..Len(versions) : ~ContainsPreReleaseWord(versions[i])}
        IN /\ call.ret.ok
           /\ stable # {} =>
                  call.ret.value = versions[CHOOSE i \in stable : \A j \in stable : i <= j]
           /\ stable = {} => call.ret.value = versions[1]

\* a stable version was returned from behind a pre-release written in capitals
C19_Witness ==
    /\ call.op = "getLatestStableVersion"
    /\ Len(GetVersions(GroupId, ArtifactId).value) = 2
    /\ GetVersions(GroupId, ArtifactId).value[1] = <<"2", ".", "0", ".", "0", "-", "S", "N", "A", "P", "S", "H", "O", "T">>
    /\ call.ret.value = GetVersions(GroupId, ArtifactId).value[2]
    /\ call.ret.value = <<"1", ".", "9", ".", "0">>

(***************************************************************************)
(* CacheService.generateSearchKey.  A number is an amount of tenths (5 is  *)
(* 0.5, 100 is 10), and Absent an argument left out.                       *)
(***************************************************************************)
Absent == -1

RECURSIVE IntToString(_)
\* Number.prototype.toString of a natural number
IntToString(n) ==
    IF n < 10 THEN <<FromCharCode(48 + n)>>
    ELSE IntToString(n \div 10) \o <<FromCharCode(48 + (n % 10))>>

\* Number.prototype.toString of an amount of tenths
NumberToString(tenths) ==
    IF tenths % 10 = 0 THEN IntToString(tenths \div 10)
    ELSE IntToString(tenths \div 10) \o <<".">> \o IntToString(tenths % 10)

\* value?.toString() ?? fallback
ToStringOr(value, fallback) == IF value = Absent THEN fallback ELSE NumberToString(value)

RECURSIVE Join(_, _)
\* Array.prototype.join
Join(parts, sep) ==
    IF Len(parts) = 0 THEN <<>>
    ELSE IF Len(parts) = 1 THEN parts[1]
    ELSE parts[1] \o <<sep>> \o Join(Tail(parts), sep)

\* Buffer.from(s, 'utf8') of an ASCII string
Utf8(s) == [i \in 1..Len(s) |-> CharCode(s[i])]

\* the base64 alphabet: A-Z, a-z, 0-9, + and /
Base64Digit(n) ==
    IF n < 26 THEN FromCharCode(65 + n)
    ELSE IF n < 52 THEN FromCharCode(97 + n - 26)
    ELSE IF n < 62 THEN FromCharCode(48 + n - 52)
    ELSE IF n = 62 THEN "+"
    ELSE "/"

RECURSIVE Base64(_)
\* Buffer.prototype.toString('base64'): three bytes give four digits, and the
\* last group is padded with "="
Base64(bytes) ==
    IF Len(bytes) = 0 THEN <<>>
    ELSE IF Len(bytes) = 1
    THEN <<Base64Digit(bytes[1] \div 4), Base64Digit((bytes[1] % 4) * 16), "=", "=">>
    ELSE IF Len(bytes) = 2
    THEN <<Base64Digit(bytes[1] \div 4),
           Base64Digit((bytes[1] % 4) * 16 + bytes[2] \div 16),
           Base64Digit((bytes[2] % 16) * 4), "=">>
    ELSE <<Base64Digit(bytes[1] \div 4),
           Base64Digit((bytes[1] % 4) * 16 + bytes[2] \div 16),
           Base64Digit((bytes[2] % 16) * 4 + bytes[3] \div 64),
           Base64Digit(bytes[3] % 64)>>
         \o Base64(SubSeq(bytes, 4, Len(bytes)))

\* the hash keeps the first HashLength alphanumeric characters
HashLength == 16

\* String.prototype.substring(0, n)
Substring(s, n) == SubSeq(s, 1, IF Len(s) < n THEN Len(s) ELSE n)

\* CacheService.generateSearchKey(query, limit, quality, popularity)
GenerateSearchKey(query, limit, quality, popularity) ==
    LET params == Join(<<query, ToStringOr(limit, <<"2", "0">>),
                         ToStringOr(quality, <<"a", "n", "y">>), ToStringOr(popularity, <<"a", "n", "y">>)>>, ":")
        hash == Substring(SelectSeq(Base64(Utf8(params)), IsAlnum), HashLength)
    IN <<"s", "e", "a", "r", "c", "h", ":">> \o hash

QueryPool == {<<"a", "b">>, <<"s", "p", "r", "i", "n", "g", " ", "b", "o", "o", "t">>, <<"d", "i", "f", "f", "e", "r", "e", "n", "t", " ", "q", "u", "e", "r", "y">>}

\* limits 10 and 20, or none
LimitPool == {Absent, 100, 200}

\* quality 0.5, or none
QualityPool == {Absent, 5}

\* popularity 0.6, or none
PopularityPool == {Absent, 6}

KeysInit ==
    /\ CacheIdle
    /\ RetryIdle
    /\ LibIdle
    /\ ApiIdle

GenerateSearchKeyCall(query, limit, quality, popularity) ==
    /\ prev' = call
    /\ call' = [op |-> "generateSearchKey", args |-> <<query, limit, quality, popularity>>,
                ret |-> GenerateSearchKey(query, limit, quality, popularity)]
    /\ UNCHANGED <<icu, upstream>>
    /\ UNCHANGED cacheVars
    /\ UNCHANGED retryVars
    /\ UNCHANGED apiVars

KeysNext ==
    \E query \in QueryPool, limit \in LimitPool, quality \in QualityPool,
       popularity \in PopularityPool :
        GenerateSearchKeyCall(query, limit, quality, popularity)

SpecKeys == KeysInit /\ [][KeysNext]_vars

\* the parameters of a call, the absent limit taking its default 20
Effective(args) == <<args[1], IF args[2] = Absent THEN 200 ELSE args[2], args[3], args[4]>>

\* C20: generateSearchKey returns the same key for the same tuple, and two tuples
\* that differ in one of query, limit, quality or popularity (the others equal,
\* absent values taking their defaults) get different keys, whatever the length
\* of the query
C20_SearchKeyInjective ==
    call.op = "generateSearchKey" /\ prev.op = "generateSearchKey" =>
        LET a == Effective(prev.args)
            b == Effective(call.args)
        IN /\ a = b => prev.ret = call.ret
           /\ Cardinality({i \in 1..4 : a[i] # b[i]}) = 1 => prev.ret # call.ret

(***************************************************************************)
(* MavenCentralApi and GitHubApi: the cached, retried upstream operations. *)
(* One API call is in progress at a time; the upstream answers each HTTP   *)
(* request with a status of its choice.                                    *)
(***************************************************************************)
Ops ==
    {"searchPackages", "getVersions", "packageExists", "getPomXml",
     "getReadme", "getReadmeWithMetadata"}

\* the operations whose retried closure awaits fetchWithTimeout itself; the
\* closures of getVersions and packageExists await searchPackages
Fetches(op) == op \in {"searchPackages", "getPomXml", "getReadme", "getReadmeWithMetadata"}

IsGitHub(op) == op \in {"getReadme", "getReadmeWithMetadata"}

\* the third and fourth arguments of every withRetry call of the two clients
ApiMaxRetries == 3

ApiBaseDelay == 1000

\* the fourth argument of withRetry
RetryContext(op) ==
    CASE op = "searchPackages" -> "Maven Central search"
      [] op = "getVersions" -> "Maven versions fetch"
      [] op = "packageExists" -> "Package existence check"
      [] op = "getPomXml" -> "POM XML fetch"
      [] op = "getReadme" -> "GitHub README fetch"
      [] op = "getReadmeWithMetadata" -> "GitHub README metadata fetch"

\* the ttl of cache.set
SearchTtl == 300000

VersionsTtl == 1800000

ExistsTtl == 1800000

PomTtl == 3600000

ReadmeTtl == 1800000

CacheTtl(op) ==
    CASE op = "searchPackages" -> SearchTtl
      [] op = "getVersions" -> VersionsTtl
      [] op = "packageExists" -> ExistsTtl
      [] op = "getPomXml" -> PomTtl
      [] op = "getReadme" -> ReadmeTtl
      [] op = "getReadmeWithMetadata" -> ReadmeTtl

\* the arguments of the calls
Version == "1.0.0"

Owner == "example"

Repo == "test-repo"

Query == <<"s", "p", "r", "i", "n", "g", " ", "b", "o", "o", "t">>

\* `g:"${groupId}" AND a:"${artifactId}"`
SearchQuery ==
    <<"g", ":", "quote">> \o <<"c", "o", "m", ".", "e", "x", "a", "m", "p", "l", "e">> \o <<"quote">> \o <<" ", "A", "N", "D", " ", "a", ":">>
        \o <<"quote">> \o <<"t", "e", "s", "t", "-", "a", "r", "t", "i", "f", "a", "c", "t">> \o <<"quote">>

\* the rows argument of searchPackages, in tenths: 20 by default, 100 from
\* getVersions, 1 from packageExists
Rows(op) ==
    CASE op = "getVersions" -> 1000
      [] op = "packageExists" -> 10
      [] OTHER -> 200

RECURSIVE AsString(_)
\* a sequence of characters as one string
AsString(s) == IF s = <<>> THEN "" ELSE s[1] \o AsString(Tail(s))

\* CacheService.generateSearchKey(query, rows) for the search of each caller
SearchKeys ==
    [caller \in {"searchPackages", "getVersions", "packageExists"} |->
        AsString(GenerateSearchKey(IF caller = "searchPackages" THEN Query ELSE SearchQuery,
                                   Rows(caller), Absent, Absent))]

\* the cache key of an operation; caller is the operation a search is made for
CacheKey(op, caller) ==
    CASE op = "searchPackages" -> SearchKeys[caller]
      [] op = "getVersions" -> "versions:" \o GroupId \o ":" \o ArtifactId
      [] op = "packageExists" -> "pkg_exists:" \o GroupId \o ":" \o ArtifactId
      [] op = "getPomXml" -> "pom:" \o GroupId \o ":" \o ArtifactId \o ":" \o Version
      [] op = "getReadme" -> "github_readme:" \o Owner \o ":" \o Repo
      [] op = "getReadmeWithMetadata" -> "github_readme_meta:" \o Owner \o ":" \o Repo

\* the HTTP statuses the upstream answers with
Statuses == {200, 403, 404, 429, 500}

\* a response: its status, its x-ratelimit-remaining header, and whether its
\* body is empty
Responses ==
    {[status |-> s, remaining |-> "1", empty |-> FALSE] : s \in Statuses}
    \cup {[status |-> 403, remaining |-> "0", empty |-> FALSE],
          [status |-> 200, remaining |-> "1", empty |-> TRUE]}

\* `${response.status} ${response.statusText}`
StatusText(status) ==
    CASE status = 403 -> <<"403", "Forbidden">>
      [] status = 404 -> <<"404", "Not Found">>
      [] status = 429 -> <<"429", "Too Many Requests">>
      [] status = 500 -> <<"500", "Internal Server Error">>

\* the body of a 200 response
Payload(op, caller) ==
    CASE op = "searchPackages" ->
             [numFound |-> upstream.numFound,
              docs |-> SubSeq(upstream.docs, 1,
                              IF Len(upstream.docs) < Rows(caller) \div 10
                              THEN Len(upstream.docs) ELSE Rows(caller) \div 10)]
      [] op = "getPomXml" -> "<project/>"
      [] op = "getReadme" -> "# README"
      [] op = "getReadmeWithMetadata" -> [name |-> "README.md", size |-> 8]

\* response.text() and response.json(): an empty body is an empty POM or README
Body(response, op, caller) ==
    IF response.empty /\ op \in {"getPomXml", "getReadme"} THEN "" ELSE Payload(op, caller)

\* MavenCentralApi.fetchWithTimeout: the response, or the error thrown for it
MavenFetch(response, op, caller) ==
    IF response.status = 200 THEN Resolved(Body(response, op, caller))
    ELSE IF response.status = 404 THEN Rejected(Thrown("Error", <<"Not found", ":", "url">>))
    ELSE IF response.status = 429 THEN Rejected(RateLimitError("Maven Central"))
    ELSE IF response.status >= 500
    THEN Rejected(Thrown("Error", <<"Server error:">> \o StatusText(response.status)))
    ELSE Rejected(Thrown("Error", <<"HTTP error:">> \o StatusText(response.status)))

\* GitHubApi.fetchWithTimeout
GitHubFetch(response, op, caller) ==
    IF response.status = 200 THEN Resolved(Body(response, op, caller))
    ELSE IF response.status = 404 THEN Rejected(PackageNotFoundError("url"))
    ELSE IF response.status = 403 /\ response.remaining = "0"
    THEN Rejected(RateLimitError("GitHub API"))
    ELSE IF response.status >= 500
    THEN Rejected(Thrown("Error", <<"GitHub API server error:">> \o StatusText(response.status)))
    ELSE Rejected(Thrown("Error", <<"GitHub API error:">> \o StatusText(response.status)))

\* fetchWithTimeout of the client of the operation
Fetch(response, op, caller) ==
    IF IsGitHub(op) THEN GitHubFetch(response, op, caller)
    ELSE MavenFetch(response, op, caller)

\* mutant of FetchBody: what the fetch settled with is stored even when it failed
FetchBodyCachesFailure(op, caller, fetched, m) ==
    [result |-> fetched,
     cache |-> SetResult(m, CacheKey(op, caller), fetched.value, CacheTtl(op), now, maxSize)]

\* the closure passed to withRetry by an operation that fetches, once the fetch
\* has settled: its result, and the cache after it
FetchBody(op, caller, fetched, m) ==
    IF fetched.ok
    THEN [result |-> fetched,
          cache |-> SetResult(m, CacheKey(op, caller), fetched.value, CacheTtl(op),
                              now, maxSize)]
    ELSE IF op = "getPomXml" /\ IsError(fetched.error)
            /\ Includes(fetched.error.message, "Not found")
    THEN [result |-> Rejected(VersionNotFoundError(GroupId \o ":" \o ArtifactId, Version)),
          cache |-> m]
    ELSE [result |-> fetched, cache |-> m]

\* getVersions: the end of its closure, with the version list computed
VersionsBody(versions, m) ==
    IF versions.ok
    THEN [result |-> versions,
          cache |-> SetResult(m, CacheKey("getVersions", "getVersions"), versions.value,
                              VersionsTtl, now, maxSize)]
    ELSE [result |-> versions, cache |-> m]

\* packageExists: the end of its closure
ExistsBody(exists, m) ==
    [result |-> Resolved(exists),
     cache |-> SetResult(m, CacheKey("packageExists", "packageExists"), exists, ExistsTtl,
                         now, maxSize)]

\* the closure passed to withRetry by getVersions and packageExists, once
\* searchPackages has settled
SearchBody(op, searched, m) ==
    IF ~searched.ok THEN [result |-> searched, cache |-> m]
    ELSE IF op = "getVersions"
    THEN VersionsBody(VersionsOf(searched.value, GroupId, ArtifactId), m)
    ELSE ExistsBody(searched.value.numFound > 0, m)

\* if (cached), and for packageExists cached !== null && cached !== undefined
CacheHit(m, op, caller) ==
    /\ HasReturn(m, CacheKey(op, caller), now)
    /\ op \in {"getPomXml", "getReadme"} => MapGet(m, CacheKey(op, caller)).data # ""

Frame(op, caller) ==
    [op |-> op, caller |-> caller, attempt |-> 1, pc |-> "call",
     lastError |-> Thrown("none", <<>>)]

\* what withRetry returned or threw, as the result of the operation awaiting it
Settle(o) == IF o.kind = "return" THEN Resolved(o.value) ELSE Rejected(o.error)

Progress(stack, m, sl, result) ==
    [frames |-> stack, cache |-> m, slept |-> sl, result |-> result]

\* withRetry's loop body after the closure of `frame` settled: the call sleeps,
\* or it ends with what it returns or throws
AfterAttempt(frame, result) ==
    IF NextPc(result, frame.attempt, ApiMaxRetries) = "sleep"
    THEN [pc |-> "sleep", frame |-> [frame EXCEPT !.pc = "sleep", !.lastError = result.error],
          delay |-> Delay(ApiBaseDelay, frame.attempt), settled |-> Pending]
    ELSE [pc |-> "ended", frame |-> frame, delay |-> 0,
          settled |-> Settle(Outcome(result, frame.attempt, ApiMaxRetries,
                                     RetryContext(frame.op)))]

\* the outermost withRetry call sleeps, or the API call ends
Outermost(after, m, sl) ==
    IF after.pc = "sleep" THEN Progress(<<after.frame>>, m, sl + after.delay, Pending)
    ELSE Progress(<<>>, m, sl, after.settled)

\* the closure of getVersions or packageExists has ended
SearchBodyEnded(outer, sl, body) ==
    Outermost(AfterAttempt(outer, body.result), body.cache, sl)

\* searchPackages has settled for the closure of getVersions or packageExists,
\* whose withRetry call is `outer`: the closure ends, and the call sleeps or ends
AfterSearch(outer, m, sl, searched) ==
    SearchBodyEnded(outer, sl, SearchBody(outer.op, searched, m))

\* the closure of getVersions or packageExists runs: it calls searchPackages,
\* which returns what is cached or enters its own withRetry and awaits the fetch
Search(outer, m, sl) ==
    IF CacheHit(m, "searchPackages", outer.op)
    THEN AfterSearch(outer, m, sl,
                     Resolved(MapGet(m, CacheKey("searchPackages", outer.op)).data))
    ELSE Progress(<<outer, Frame("searchPackages", outer.op)>>,
                  ProbeResult(m, CacheKey("searchPackages", outer.op), now), sl, Pending)

\* an operation is called: it returns what is cached, or enters withRetry, whose
\* closure awaits a fetch or calls searchPackages
Enter(m, op) ==
    IF CacheHit(m, op, op)
    THEN Progress(<<>>, m, 0, Resolved(MapGet(m, CacheKey(op, op)).data))
    ELSE IF Fetches(op)
    THEN Progress(<<Frame(op, op)>>, ProbeResult(m, CacheKey(op, op), now), 0, Pending)
    ELSE Search(Frame(op, op), ProbeResult(m, CacheKey(op, op), now), 0)

\* the innermost withRetry call sleeps, or it ends: then the API call ends, or
\* the closure that awaited searchPackages goes on
Innermost(stack, after, m, sl) ==
    IF after.pc = "sleep"
    THEN Progress(SubSeq(stack, 1, Len(stack) - 1) \o <<after.frame>>, m, sl + after.delay,
                  Pending)
    ELSE IF Len(stack) = 1 THEN Progress(<<>>, m, sl, after.settled)
    ELSE AfterSearch(stack[1], m, sl, after.settled)

\* the closure of an operation that fetches has ended
FetchBodyEnded(stack, sl, body) ==
    Innermost(stack, AfterAttempt(stack[Len(stack)], body.result), body.cache, sl)

\* the fetch awaited by the closure of the innermost withRetry call has settled
Fetched(stack, m, sl, fetched) ==
    FetchBodyEnded(stack, sl,
                   FetchBody(stack[Len(stack)].op, stack[Len(stack)].caller, fetched, m))

\* the next attempt of a withRetry call
NextAttempt(frame) == [frame EXCEPT !.pc = "call", !.attempt = frame.attempt + 1]

\* the innermost withRetry call starts its next attempt
Attempt(stack, m, sl) ==
    IF Fetches(stack[Len(stack)].op)
    THEN Progress(SubSeq(stack, 1, Len(stack) - 1) \o <<NextAttempt(stack[Len(stack)])>>,
                  m, sl, Pending)
    ELSE Search(NextAttempt(stack[Len(stack)]), m, sl)

\* the caller whose search stored the entry under a search key
StoredFor(key) ==
    IF \E p \in storedBy : p[1] = key THEN (CHOOSE p \in storedBy : p[1] = key)[2]
    ELSE "none"

\* the search taken from the cache for `caller`, if the cache answers it
SearchHit(m, caller) ==
    IF CacheHit(m, "searchPackages", caller)
    THEN [for |-> caller, from |-> StoredFor(CacheKey("searchPackages", caller))]
    ELSE NoHit

\* the search an operation takes from the cache when it is called: searchPackages
\* under its own key, getVersions and packageExists after a miss under theirs
HitAtCall(m, op) ==
    IF op = "searchPackages" THEN SearchHit(m, op)
    ELSE IF Fetches(op) \/ CacheHit(m, op, op) THEN NoHit
    ELSE SearchHit(ProbeResult(m, CacheKey(op, op), now), op)

\* cache.set(cacheKey, data, 300000) of searchPackages, noted per key
StoreSearch(stored, caller) ==
    {p \in stored : p[1] # CacheKey("searchPackages", caller)}
        \cup {<<CacheKey("searchPackages", caller), caller>>}

\* the largest number of API calls made one after the other
MaxApiCalls == 3

\* what the search holds for the coordinate: nothing, or two versions
ApiUpstreams ==
    {NoUpstream,
     [numFound |-> 2, docs |-> <<<<"1", ".", "0", ".", "0">>, <<"1", ".", "0", ".", "0", "-", "R", "C", "1">>>>, poms |-> {<<"1", ".", "0", ".", "0">>}]}

ApiInit ==
    /\ CacheIdle
    /\ RetryIdle
    /\ ApiIdle
    /\ icu = FALSE
    /\ upstream \in ApiUpstreams
    /\ call = NoCall
    /\ prev = NoCall

\* one of the operations is called while none is in progress
ApiCall(op) ==
    /\ frames = <<>>
    /\ apiCalls < MaxApiCalls
    /\ apiCalls' = apiCalls + 1
    /\ \E r \in {Enter(cache, op)} :
          /\ frames' = r.frames
          /\ cache' = r.cache
          /\ slept' = r.slept
          /\ apiResult' = r.result
    /\ requests' = 0
    /\ clientErrorAt' = 0
    /\ atCall' = [op |-> op, cache |-> cache, now |-> now]
    /\ hit' = HitAtCall(cache, op)
    /\ UNCHANGED <<storedBy, changedAt>>
    /\ UNCHANGED concVars
    /\ UNCHANGED <<now, maxSize, last>>
    /\ UNCHANGED retryVars
    /\ UNCHANGED libVars

\* a response with a status in [400, 500) other than 429
ClientError(response) ==
    response.status >= 400 /\ response.status < 500 /\ response.status # 429

\* the upstream answers the request of the innermost withRetry call
Respond(response) ==
    /\ frames # <<>>
    /\ frames[Len(frames)].pc = "call"
    /\ \E r \in {Fetched(frames, cache, slept,
                         Fetch(response, frames[Len(frames)].op,
                               frames[Len(frames)].caller))} :
          /\ frames' = r.frames
          /\ cache' = r.cache
          /\ slept' = r.slept
          /\ apiResult' = r.result
    /\ requests' = requests + 1
    /\ clientErrorAt' = IF clientErrorAt = 0 /\ ClientError(response) THEN requests + 1
                        ELSE clientErrorAt
    /\ storedBy' = IF response.status = 200 /\ frames[Len(frames)].op = "searchPackages"
                    THEN StoreSearch(storedBy, frames[Len(frames)].caller)
                    ELSE storedBy
    /\ UNCHANGED <<apiCalls, atCall, hit, changedAt>>
    /\ UNCHANGED concVars
    /\ UNCHANGED <<now, maxSize, last>>
    /\ UNCHANGED retryVars
    /\ UNCHANGED libVars

\* the backoff timer of the innermost withRetry call fires: its next attempt starts
ApiTimerFires ==
    /\ frames # <<>>
    /\ frames[Len(frames)].pc = "sleep"
    /\ \E r \in {Attempt(frames, cache, slept)} :
          /\ frames' = r.frames
          /\ cache' = r.cache
          /\ slept' = r.slept
          /\ apiResult' = r.result
    /\ hit' = IF ~Fetches(frames[Len(frames)].op)
                  /\ SearchHit(cache, frames[Len(frames)].op) # NoHit
               THEN SearchHit(cache, frames[Len(frames)].op)
               ELSE hit
    /\ UNCHANGED <<requests, clientErrorAt, apiCalls, atCall, storedBy, changedAt>>
    /\ UNCHANGED concVars
    /\ UNCHANGED <<now, maxSize, last>>
    /\ UNCHANGED retryVars
    /\ UNCHANGED libVars

ApiNext ==
    \/ \E op \in Ops : ApiCall(op)
    \/ \E response \in Responses : Respond(response)
    \/ ApiTimerFires

SpecApi == ApiInit /\ [][ApiNext]_vars

\* C11: for every retry-wrapped upstream operation, a response with a status in
\* [400, 500) other than 429 results in exactly one HTTP request for that call:
\* no request follows it, such a response is never retried
C11_ClientErrorsFailFast ==
    clientErrorAt # 0 => requests = clientErrorAt /\ frames = <<>>

\* C21: a search that a cached operation takes from the cache was stored by the
\* same operation with the same parameters: a lookup never returns a value
\* stored for a different query or limit, or by a different operation
C21_NoCrossRequestHits ==
    hit # NoHit => hit.from = hit.for

\* the cached operations of MavenCentralApi
MavenOps == {"searchPackages", "getVersions", "getPomXml", "packageExists"}

\* the cache held a live entry under the key of the operation when it was called
LiveAtCall ==
    /\ atCall.op # "none"
    /\ HasReturn(atCall.cache, CacheKey(atCall.op, atCall.op), atCall.now)

\* C23: when the cache holds a live entry under the operation's key,
\* searchPackages, getVersions, getPomXml and packageExists return the cached
\* value without an upstream request and without entering the retry layer,
\* whatever the cached value is
C23_CacheGatesUpstream ==
    LiveAtCall /\ atCall.op \in MavenOps
        => /\ requests = 0
           /\ frames = <<>>
           /\ apiResult = Resolved(MapGet(atCall.cache, CacheKey(atCall.op, atCall.op)).data)

(***************************************************************************)
(* The Maven Central operations while the clock runs and the upstream      *)
(* publishes a new version of the artifact.                                *)
(***************************************************************************)
\* the clock is read every five minutes
Minutes5 == SearchTtl

\* the number of readings of the clock
MaxTicks == 7

\* the operations of MavenCentralApi that read the search
SearchOps == {"searchPackages", "getVersions", "packageExists"}

\* what the search holds before the new version is published: nothing, or one version
FreshUpstreams ==
    {NoUpstream,
     [numFound |-> 1, docs |-> <<<<"1", ".", "0", ".", "0">>>>, poms |-> {<<"1", ".", "0", ".", "0">>}]}

\* the new version
NewVersion == <<"2", ".", "0", ".", "0">>

\* the upstream answers with 200 or with 500
FreshResponses == {r \in Responses : r.status \in {200, 500} /\ r.remaining = "1"}

FreshInit ==
    /\ CacheIdle
    /\ RetryIdle
    /\ ApiIdle
    /\ icu = FALSE
    /\ upstream \in FreshUpstreams
    /\ call = NoCall
    /\ prev = NoCall

\* five minutes pass
ApiTick ==
    /\ now < MaxTicks * Minutes5
    /\ now' = now + Minutes5
    /\ UNCHANGED <<cache, maxSize, last>>
    /\ UNCHANGED retryVars
    /\ UNCHANGED extVars

\* a new version of the artifact is published: the search lists it first
Publish ==
    /\ changedAt = {}
    /\ changedAt' = {now}
    /\ upstream' = [numFound |-> upstream.numFound + 1,
                    docs |-> <<NewVersion>> \o upstream.docs,
                    poms |-> upstream.poms \cup {NewVersion}]
    /\ UNCHANGED <<icu, call, prev>>
    /\ UNCHANGED <<frames, requests, clientErrorAt, slept, apiResult, apiCalls, atCall, hit,
                   storedBy>>
    /\ UNCHANGED concVars
    /\ UNCHANGED cacheVars
    /\ UNCHANGED retryVars

FreshNext ==
    \/ \E op \in SearchOps : ApiCall(op)
    \/ \E response \in FreshResponses : Respond(response)
    \/ ApiTimerFires
    \/ ApiTick
    \/ Publish

SpecFresh == FreshInit /\ [][FreshNext]_vars

\* the documented freshness window of an operation
Window(op) ==
    CASE op = "searchPackages" -> SearchTtl
      [] op = "getVersions" -> VersionsTtl
      [] op = "packageExists" -> ExistsTtl
      [] op = "getPomXml" -> PomTtl

\* the value the API call returned is what the upstream held before the new
\* version was published, so it was obtained no later than the publication
Outdated ==
    /\ apiResult.ok
    /\ changedAt # {}
    /\ CASE atCall.op = "searchPackages" -> apiResult.value.numFound < upstream.numFound
         [] atCall.op = "getVersions" ->
                \A i \in 1..Len(apiResult.value) : apiResult.value[i] # NewVersion
         [] atCall.op = "packageExists" -> apiResult.value = FALSE
         [] OTHER -> FALSE

\* the API call ends in this step
CallEnds == (frames # <<>> \/ apiCalls' # apiCalls) /\ frames' = <<>>

\* C22: a value returned by getVersions reflects an upstream response obtained
\* at most 30 minutes before the return, one returned by packageExists at most
\* 30 minutes before, one returned by searchPackages at most 5 minutes before
C22_FreshnessWindows ==
    [][CallEnds => ~(Outdated' /\ \E t \in changedAt' : now' - t > Window(atCall'.op))]_vars

(***************************************************************************)
(* Several logical callers of the API share the cache. JavaScript runs one *)
(* caller at a time up to its next await: a caller is interleaved with the *)
(* others only while it awaits an upstream response or a backoff timer.    *)
(***************************************************************************)
\* the largest number of API calls the callers make together
MaxConcCalls == 3

RECURSIVE CallsOf(_)
\* the number of API calls the callers in `cs` have made
CallsOf(cs) ==
    IF cs = {} THEN 0
    ELSE LET c == CHOOSE x \in cs : TRUE IN procs[c].calls + CallsOf(cs \ {c})

\* the global cache is constructed with CACHE_MAX_SIZE
ConcSizes == {1, 2}

ConcResponses == {r \in Responses : r.status \in {200, 500} /\ r.remaining = "1" /\ ~r.empty}

\* the key and value of the entries a caller has set between two awaits and left
\* in the store
SetsOf(before, after) ==
    {[key |-> after[i].key, data |-> after[i].data] :
        i \in {j \in 1..Len(after) :
                  ~(MapHas(before, after[j].key) /\ MapGet(before, after[j].key) = after[j])}}

ConcInit ==
    /\ RetryIdle
    /\ ApiIdle
    /\ icu = FALSE
    /\ upstream \in ApiUpstreams
    /\ call = NoCall
    /\ prev = NoCall
    /\ cache = <<>>
    /\ now = 0
    /\ maxSize \in ConcSizes
    /\ last = [op |-> "new", key |-> "", data |-> Null, ttl |-> NoTtl, ret |-> "void",
               pre |-> <<>>]

\* caller c calls an operation and runs up to its first await
ConcCall(c, op) ==
    /\ procs[c].frames = <<>>
    /\ CallsOf(Callers) < MaxConcCalls
    /\ \E r \in {Enter(cache, op)} :
          /\ procs' = [procs EXCEPT ![c] =
                          [op |-> op, frames |-> r.frames, slept |-> r.slept,
                           result |-> r.result, hit |-> CacheHit(cache, op, op),
                           calls |-> procs[c].calls + 1]]
          /\ cache' = r.cache
          /\ stores' = stores \cup SetsOf(cache, r.cache)
    /\ UNCHANGED <<now, maxSize, last>>
    /\ UNCHANGED retryVars
    /\ UNCHANGED libVars
    /\ UNCHANGED soloVars

\* the upstream answers the request caller c awaits; c runs up to its next await
ConcRespond(c, response) ==
    /\ procs[c].frames # <<>>
    /\ procs[c].frames[Len(procs[c].frames)].pc = "call"
    /\ \E r \in {Fetched(procs[c].frames, cache, procs[c].slept,
                         Fetch(response, procs[c].frames[Len(procs[c].frames)].op,
                               procs[c].frames[Len(procs[c].frames)].caller))} :
          /\ procs' = [procs EXCEPT ![c].frames = r.frames, ![c].slept = r.slept,
                                    ![c].result = r.result]
          /\ cache' = r.cache
          /\ stores' = stores \cup SetsOf(cache, r.cache)
    /\ UNCHANGED <<now, maxSize, last>>
    /\ UNCHANGED retryVars
    /\ UNCHANGED libVars
    /\ UNCHANGED soloVars

\* the backoff timer caller c awaits fires; c runs up to its next await
ConcTimerFires(c) ==
    /\ procs[c].frames # <<>>
    /\ procs[c].frames[Len(procs[c].frames)].pc = "sleep"
    /\ \E r \in {Attempt(procs[c].frames, cache, procs[c].slept)} :
          /\ procs' = [procs EXCEPT ![c].frames = r.frames, ![c].slept = r.slept,
                                    ![c].result = r.result]
          /\ cache' = r.cache
          /\ stores' = stores \cup SetsOf(cache, r.cache)
    /\ UNCHANGED <<now, maxSize, last>>
    /\ UNCHANGED retryVars
    /\ UNCHANGED libVars
    /\ UNCHANGED soloVars

ConcNext ==
    \/ \E c \in Callers, op \in MavenOps : ConcCall(c, op)
    \/ \E c \in Callers, response \in ConcResponses : ConcRespond(c, response)
    \/ \E c \in Callers : ConcTimerFires(c)

SpecConcurrent == ConcInit /\ [][ConcNext]_vars

\* C24: when several callers run concurrently and interleave only at awaited
\* upstream requests and backoff sleeps, the store holds at most maxSize
\* entries, one per key, every entry is one that a completed set stored, and a
\* value returned from the cache is one that a completed set stored under that key
C24_InterleavingSafety ==
    /\ Len(cache) <= maxSize
    /\ \A i, j \in 1..Len(cache) : cache[i].key = cache[j].key => i = j
    /\ \A i \in 1..Len(cache) : [key |-> cache[i].key, data |-> cache[i].data] \in stores
    /\ \A c \in Callers :
          procs[c].hit => [key |-> CacheKey(procs[c].op, procs[c].op),
                           data |-> procs[c].result.value] \in stores

\* one caller was answered from the full cache while another awaits its request
C24_Witness ==
    \E c, d \in Callers :
        /\ procs[c].hit
        /\ procs[c].result.ok
        /\ procs[d].frames # <<>>
        /\ Len(cache) = maxSize
\* the last API call has ended, and it failed
FailedCallEnded == frames = <<>> /\ atCall.op # "none" /\ ~apiResult.ok

\* an entry under the own key of the last API call is the one that was there
\* when the call was made
OwnKeyUntouched ==
    MapHas(cache, CacheKey(atCall.op, atCall.op))
        => /\ MapHas(atCall.cache, CacheKey(atCall.op, atCall.op))
           /\ MapGet(cache, CacheKey(atCall.op, atCall.op))
                  = MapGet(atCall.cache, CacheKey(atCall.op, atCall.op))

IsRetryableError(error) ==
    IF error.cls = "RateLimitError" THEN TRUE
    ELSE IF error.cls = "NetworkError" THEN TRUE
    ELSE IF IsTyped(error)
    THEN error.statusCode = 429 \/ (error.statusCode # NoStatus /\ error.statusCode >= 500)
    ELSE FALSE

\* C29: for every error e and every attempt with attempts remaining, withRetry
\* makes a further attempt after the operation fails with e if and only if
\* isRetryableError(e) is true
C29_RetryAgreesWithIsRetryable ==
    pc \in {"sleep", "thrown"} /\ attempt < maxRetries
        => (pc = "sleep" <=> IsRetryableError(lastError))

\* C28: a single call to getVersions or to packageExists issues at most 3
\* upstream HTTP requests in total and spends at most 1000 + 2000 ms in backoff
\* sleeps, whatever sequence of retryable failures the upstream returns
C28_ComposedRetryBound ==
    atCall.op \in {"getVersions", "packageExists"}
        => /\ requests <= ApiMaxRetries
           /\ slept <= ApiBaseDelay + 2 * ApiBaseDelay

\* the position of a key in a store
PositionOf(m, key) == CHOOSE i \in 1..Len(m) : m[i].key = key

\* C27: after cleanup() at time now the store holds precisely the entries that
\* were present before with now - storedAt <= ttl, each with unchanged value,
\* storedAt and ttl, in their former relative order
C27_CleanupRemovesExactlyExpired ==
    last.op = "cleanup" =>
        /\ \A i \in 1..Len(cache) :
               /\ \E j \in 1..Len(last.pre) : last.pre[j] = cache[i]
               /\ now - cache[i].timestamp <= cache[i].ttl
        /\ \A j \in 1..Len(last.pre) :
               now - last.pre[j].timestamp <= last.pre[j].ttl
                   => \E i \in 1..Len(cache) : cache[i] = last.pre[j]
        /\ \A i, k \in 1..Len(cache) :
               i < k => PositionOf(last.pre, cache[i].key) < PositionOf(last.pre, cache[k].key)
        /\ \A i, k \in 1..Len(cache) : cache[i].key = cache[k].key => i = k

\* a cleanup that removed an expired entry and kept a live one
C27_Witness ==
    /\ last.op = "cleanup"
    /\ Len(cache) >= 1
    /\ Len(cache) < Len(last.pre)

(***************************************************************************)
(* The tools get_package_readme and get_package_info, and the validation   *)
(* of their input. A call is made with nothing cached and every upstream   *)
(* request answered; `touched` lists the cache accesses and the API        *)
(* operations the call makes, in order.                                    *)
(***************************************************************************)
\* a character of /[a-zA-Z0-9._-]/
IsNameChar(c) == IsAlnum(c) \/ c \in {".", "_", "-"}

\* Validators.isValidGroupId
IsValidGroupId(groupId) ==
    groupId # <<>> /\ \A i \in 1..Len(groupId) : IsNameChar(groupId[i])

\* Validators.isValidArtifactId
IsValidArtifactId(artifactId) ==
    artifactId # <<>> /\ \A i \in 1..Len(artifactId) : IsNameChar(artifactId[i])

InvalidPackageNameError(packageName) ==
    [cls |-> "InvalidPackageNameError",
     message |-> <<"Invalid", "package", "name", "format:", AsString(packageName)>>,
     code |-> "INVALID_PACKAGE_NAME", statusCode |-> 400]

\* Validators.validatePackageName, with the string already trimmed and split
ValidateParts(packageName, parts) ==
    IF Len(parts) # 2 THEN Rejected(InvalidPackageNameError(packageName))
    ELSE IF ~IsValidGroupId(parts[1]) THEN Rejected(InvalidPackageNameError(packageName))
    ELSE IF ~IsValidArtifactId(parts[2]) THEN Rejected(InvalidPackageNameError(packageName))
    ELSE Resolved([groupId |-> parts[1], artifactId |-> parts[2]])

\* Validators.validatePackageName
ValidatePackageName(packageName) ==
    IF Falsy(packageName) THEN Rejected(InvalidPackageNameError(packageName))
    ELSE IF Trim(packageName) = <<>> THEN Rejected(InvalidPackageNameError(packageName))
    ELSE ValidateParts(packageName, Split(Trim(packageName), ":"))

\* the coordinate is the one Maven Central may hold versions of
Holds(groupId, artifactId) ==
    AsString(groupId) = GroupId /\ AsString(artifactId) = ArtifactId

\* mavenCentralApi.packageExists
PackageExists(groupId, artifactId) == Holds(groupId, artifactId) /\ upstream.numFound > 0

\* mavenCentralApi.getLatestVersion
LatestOf(groupId, artifactId) ==
    IF Holds(groupId, artifactId) THEN GetLatestVersion(GroupId, ArtifactId)
    ELSE Rejected(PackageNotFoundError(AsString(groupId) \o ":" \o AsString(artifactId)))

\* mavenCentralApi.getPomXml
PomXml(groupId, artifactId, version) ==
    IF Holds(groupId, artifactId) /\ version \in upstream.poms THEN Resolved("<project/>")
    ELSE Rejected(VersionNotFoundError(AsString(groupId) \o ":" \o AsString(artifactId),
                                       AsString(version)))

\* getPackageReadme: the response of its inner catch block
NotFoundResponse(groupId, artifactId, version) ==
    [package_name |-> AsString(groupId) \o ":" \o AsString(artifactId), version |-> version,
     description |-> "Package not found", exists |-> FALSE]

\* getPackageReadme from the fetch of the POM of the version it settled on
ReadmeOf(groupId, artifactId, version, actualVersion, touched) ==
    IF ~actualVersion.ok
    THEN [result |-> Resolved(NotFoundResponse(groupId, artifactId, version)),
          touched |-> touched]
    ELSE IF ~PomXml(groupId, artifactId, actualVersion.value).ok
    THEN [result |-> Resolved(NotFoundResponse(groupId, artifactId, version)),
          touched |-> touched \o <<"getPomXml">>]
    ELSE [result |-> Resolved([package_name |-> AsString(groupId) \o ":" \o AsString(artifactId),
                               version |-> actualVersion.value,
                               description |-> "No description available",
                               exists |-> TRUE]),
          touched |-> touched \o <<"getPomXml", "getPomXml", "cache.set">>]

\* getPackageReadme after the validation of the package name
ReadmeFor(groupId, artifactId, version) ==
    IF ~PackageExists(groupId, artifactId)
    THEN [result |-> Resolved(NotFoundResponse(groupId, artifactId, version)),
          touched |-> <<"cache.get", "packageExists">>]
    ELSE IF version = Latest
    THEN ReadmeOf(groupId, artifactId, version, LatestOf(groupId, artifactId),
                  <<"cache.get", "packageExists", "getLatestVersion">>)
    ELSE ReadmeOf(groupId, artifactId, version, Resolved(version),
                  <<"cache.get", "packageExists">>)

\* getPackageReadme with its package name validated
ReadmeNamed(name, version) ==
    IF ~name.ok THEN [result |-> name, touched |-> <<>>]
    ELSE ReadmeFor(name.value.groupId, name.value.artifactId, version)

\* getPackageReadme(params): version = 'latest' when the parameter is undefined
GetPackageReadme(packageName, version) ==
    ReadmeNamed(ValidatePackageName(packageName),
                IF version = Undefined THEN Latest ELSE version)

\* getPackageInfo from the fetch of the POM of the latest version
InfoOf(groupId, artifactId, latestVersion, pomXml) ==
    IF ~latestVersion.ok
    THEN [result |-> latestVersion, touched |-> <<"cache.get", "getLatestVersion">>]
    ELSE IF ~pomXml.ok
    THEN [result |-> pomXml, touched |-> <<"cache.get", "getLatestVersion", "getPomXml">>]
    ELSE [result |-> Resolved([package_name |-> AsString(groupId) \o ":" \o AsString(artifactId),
                               latest_version |-> latestVersion.value]),
          touched |-> <<"cache.get", "getLatestVersion", "getPomXml", "cache.set">>]

\* getPackageInfo after the validation of the package name
InfoFor(groupId, artifactId, latestVersion) ==
    InfoOf(groupId, artifactId, latestVersion,
           IF latestVersion.ok THEN PomXml(groupId, artifactId, latestVersion.value)
           ELSE latestVersion)

\* getPackageInfo with its package name validated
InfoNamed(name) ==
    IF ~name.ok THEN [result |-> name, touched |-> <<>>]
    ELSE InfoFor(name.value.groupId, name.value.artifactId,
                 LatestOf(name.value.groupId, name.value.artifactId))

\* getPackageInfo(params)
GetPackageInfo(packageName) == InfoNamed(ValidatePackageName(packageName))

\* the API operation VersionResolver.resolveVersion awaits for a specifier
Consults(versionSpec) ==
    IF versionSpec = Latest \/ Falsy(versionSpec) THEN <<"getLatestVersion">>
    ELSE IF IsSpecificVersion(versionSpec) THEN <<"versionExists">>
    ELSE IF IsVersionRange(versionSpec) THEN <<"getVersions">>
    ELSE <<"versionExists">>

\* the package names the tools are called with
NamePool ==
    {<<"c", "o", "m", ".", "e", "x", "a", "m", "p", "l", "e", ":", "t", "e", "s", "t", "-", "a", "r", "t", "i", "f", "a", "c", "t">>, <<" ", "c", "o", "m", ".", "e", "x", "a", "m", "p", "l", "e", ":", "t", "e", "s", "t", "-", "a", "r", "t", "i", "f", "a", "c", "t", " ">>, <<"o", "r", "g", ".", "o", "t", "h", "e", "r", ":", "l", "i", "b">>,
     <<>>, <<" ">>, <<"t", "e", "s", "t", "-", "a", "r", "t", "i", "f", "a", "c", "t">>, <<"c", "o", "m", ".", "e", "x", "a", "m", "p", "l", "e", ":", "t", "e", "s", "t", ":", "a", "r", "t", "i", "f", "a", "c", "t">>, <<"c", "o", "m", ".", "e", "x", "a", "m", "p", "l", "e", ":">>,
     <<"c", "o", "m", " ", "e", "x", "a", "m", "p", "l", "e", ":", "t", "e", "s", "t", "-", "a", "r", "t", "i", "f", "a", "c", "t">>}

\* the version parameters get_package_readme is called with
VersionArgPool ==
    {Undefined, Latest, <<>>, <<"1", ".", "0", ".", "0">>, <<"9", ".", "9", ".", "9">>, <<"[", "0", ".", "9", ",", "1", ".", "9", ")">>, <<"[", "3", ".", "0", ",", ")">>, <<"1", ".", "0", "!">>}

\* what Maven Central holds for the coordinate
ToolUpstreams ==
    {NoUpstream,
     [numFound |-> 1, docs |-> <<<<"1", ".", "0", ".", "0">>>>, poms |-> {}],
     [numFound |-> 2, docs |-> <<<<"1", ".", "9", ".", "0">>, <<"1", ".", "0", ".", "0">>>>, poms |-> {<<"1", ".", "9", ".", "0">>, <<"1", ".", "0", ".", "0">>}],
     [numFound |-> 2, docs |-> <<<<"2", ".", "0", ".", "0">>, <<"1", ".", "0", ".", "0">>>>, poms |-> {<<"2", ".", "0", ".", "0">>, <<"1", ".", "0", ".", "0">>}]}

ToolsInit ==
    /\ CacheIdle
    /\ RetryIdle
    /\ ApiIdle
    /\ icu = FALSE
    /\ upstream \in ToolUpstreams
    /\ call = NoCall
    /\ prev = NoCall

GetPackageReadmeCall(packageName, version) ==
    /\ call = NoCall
    /\ call' = [op |-> "getPackageReadme", args |-> <<packageName, version>>,
                ret |-> GetPackageReadme(packageName, version)]
    /\ UNCHANGED <<icu, upstream, prev>>
    /\ UNCHANGED cacheVars
    /\ UNCHANGED retryVars
    /\ UNCHANGED apiVars

GetPackageInfoCall(packageName) ==
    /\ call = NoCall
    /\ call' = [op |-> "getPackageInfo", args |-> <<packageName>>,
                ret |-> GetPackageInfo(packageName)]
    /\ UNCHANGED <<icu, upstream, prev>>
    /\ UNCHANGED cacheVars
    /\ UNCHANGED retryVars
    /\ UNCHANGED apiVars

ToolsNext ==
    \/ \E packageName \in NamePool, version \in VersionArgPool :
           GetPackageReadmeCall(packageName, version)
    \/ \E packageName \in NamePool : GetPackageInfoCall(packageName)
    \/ \E versionSpec \in VersionArgPool \ {Undefined} : ResolveVersionCall(versionSpec)
    \/ Return

SpecTools == ToolsInit /\ [][ToolsNext]_vars

\* a string of the form groupId:artifactId, both parts non-empty and made of
\* letters, digits, dots, underscores and hyphens, possibly surrounded by spaces
WellFormedCoordinate(s) ==
    \E k \in 2..(Len(Trim(s)) - 1) :
        /\ Trim(s)[k] = ":"
        /\ \A i \in 1..Len(Trim(s)) : i # k => IsNameChar(Trim(s)[i])

\* a version specifier that is no range and holds a character no version holds
MalformedSpecifier(v) ==
    /\ v # Undefined
    /\ v # <<>>
    /\ ~IsVersionRange(v)
    /\ \E i \in 1..Len(v) : ~IsNameChar(v[i])

\* the call failed with the invalid-input error
InvalidInput(result) == ~result.ok /\ result.error.cls = "InvalidPackageNameError"

\* C25: a request whose package coordinate or version specifier is syntactically
\* malformed fails with an invalid-input error, before any cache read or write
\* and before any upstream attempt
C25_InvalidInputIsTerminal ==
    /\ call.op \in {"getPackageReadme", "getPackageInfo"} /\ ~WellFormedCoordinate(call.args[1])
           => InvalidInput(call.ret.result) /\ call.ret.touched = <<>>
    /\ call.op = "getPackageReadme" /\ MalformedSpecifier(call.args[2])
           => InvalidInput(call.ret.result) /\ call.ret.touched = <<>>
    /\ call.op = "resolveVersion" /\ MalformedSpecifier(call.args[3])
           => InvalidInput(call.ret) /\ Consults(call.args[3]) = <<>>

\* the versions of the coordinate that lie in the range and have a POM
VersionsInRange(range) ==
    {v \in KnownVersions \cap upstream.poms :
        VersionMatchesRange(v, ParseVersionRange(range).minVersion,
                            ParseVersionRange(range).maxVersion,
                            ParseVersionRange(range).includeMin,
                            ParseVersionRange(range).includeMax)}

\* C26: called with a version parameter that is a Maven version range,
\* get_package_readme resolves it to an existing version inside the range and
\* responds with that version, not with the range string
C26_ReadmeAcceptsRange ==
    /\ call.op = "getPackageReadme"
    /\ WellFormedCoordinate(call.args[1])
    /\ Holds(ValidatePackageName(call.args[1]).value.groupId,
             ValidatePackageName(call.args[1]).value.artifactId)
    /\ IsVersionRange(call.args[2])
    /\ VersionsInRange(call.args[2]) # {}
    => /\ call.ret.result.ok
       /\ call.ret.result.value.exists
       /\ call.ret.result.value.version \in VersionsInRange(call.args[2])
====
